---- MODULE Spec2Model ----
(***************************************************************************)
(* A model of html2twig: the two converters HTMLToTwigConverter (dialect   *)
(* "twig") and HTMLToWordPressConverter (dialect "wordpress"), their       *)
(* conversion reports and the document tree they rewrite in place.         *)
(*                                                                         *)
(* Strings.  A Python string is modelled as a sequence of atoms.  An atom  *)
(* is a short string that the program's regular expressions and prefix     *)
(* tests never split: a path segment with its slash ("img/", "../"), a     *)
(* file stem ("logo"), an extension (".png"), a scheme ("https://"), one   *)
(* space, one quote, one closing parenthesis, one comma, a template        *)
(* delimiter ("{{", "<?php"), "url(" and so on.  Every operator below that *)
(* models a regular expression or a str method works atom by atom and      *)
(* gives what the Python code gives on the concatenation of the atoms.     *)
(***************************************************************************)
EXTENDS Integers, Sequences, FiniteSets, TLC

Twig == "twig"
WordPress == "wordpress"
Dialects == {Twig, WordPress}

(***************************************************************************)
(* str helpers                                                             *)
(***************************************************************************)
WhiteAtoms == {" ", "\n"}
QuoteAtoms == {"'", "\""}

Idx(n) == [i \in 1..n |-> i]

StartsWith(s, p) == Len(s) >= Len(p) /\ SubSeq(s, 1, Len(p)) = p

EndsWith(s, p) == Len(s) >= Len(p) /\ SubSeq(s, Len(s) - Len(p) + 1, Len(s)) = p

StartsWithAny(s, prefixes) == \E p \in prefixes : StartsWith(s, p)

RECURSIVE LStrip(_)
LStrip(s) == IF s # <<>> /\ Head(s) \in WhiteAtoms THEN LStrip(Tail(s)) ELSE s

RECURSIVE RStrip(_)
RStrip(s) ==
    IF s # <<>> /\ s[Len(s)] \in WhiteAtoms THEN RStrip(SubSeq(s, 1, Len(s) - 1)) ELSE s

\* str.strip()
Strip(s) == RStrip(LStrip(s))

\* str.lower() on the atoms of the lexicon that hold upper-case letters
LowerAtom(a) ==
    CASE a = "IMG/" -> "img/"
      [] a = "Assets/" -> "assets/"
      [] a = ".PNG" -> ".png"
      [] a = "LOGO" -> "logo"
      [] a = "URL(" -> "url("
      [] a = "Main" -> "main"
      [] a = "Nav" -> "nav"
      [] a = "Menu" -> "menu"
      [] a = "Post" -> "post"
      [] a = "Top" -> "top"
      [] a = "Links" -> "links"
      [] a = "Site" -> "site"
      [] a = "Navbar" -> "navbar"
      [] a = "Navigation" -> "navigation"
      [] a = "Primary" -> "primary"
      [] OTHER -> a

Lower(s) == [i \in 1..Len(s) |-> LowerAtom(s[i])]

\* str.split(sep) for a one-atom separator: empty pieces are kept
RECURSIVE SplitOn(_, _)
SplitOn(s, sep) ==
    IF \A i \in 1..Len(s) : s[i] # sep THEN <<s>>
    ELSE LET k == CHOOSE i \in 1..Len(s) : s[i] = sep /\ \A j \in 1..(i - 1) : s[j] # sep
         IN  <<SubSeq(s, 1, k - 1)>> \o SplitOn(SubSeq(s, k + 1, Len(s)), sep)

\* str.split(): the maximal runs of non-whitespace atoms
RECURSIVE SplitWhite(_)
SplitWhite(s) ==
    LET t == LStrip(s)
    IN  IF t = <<>> THEN <<>>
        ELSE IF \A i \in 1..Len(t) : t[i] \notin WhiteAtoms THEN <<t>>
        ELSE LET k == CHOOSE i \in 1..Len(t) :
                        t[i] \in WhiteAtoms /\ \A j \in 1..(i - 1) : t[j] \notin WhiteAtoms
             IN  <<SubSeq(t, 1, k - 1)>> \o SplitWhite(SubSeq(t, k, Len(t)))

\* sep.join(parts)
RECURSIVE Join(_, _)
Join(parts, sep) ==
    IF parts = <<>> THEN <<>>
    ELSE IF Len(parts) = 1 THEN parts[1]
    ELSE parts[1] \o sep \o Join(Tail(parts), sep)

(***************************************************************************)
(* The asset path classifier                                               *)
(***************************************************************************)
\* ASSET_PATTERNS, in dict order; the alternatives each pattern accepts
ASSET_PATTERNS == <<"images", "css", "js", "fonts">>

DotSegments == {"./", "../"}

\* the patterns without their optional assets?/ segment
NoAssetsDirs == {}

AssetsDirs == {"assets/", "asset/"}

\* the patterns with "css/" accepted as a fonts directory too
AliasDirsShared(asset_type) ==
    CASE asset_type = "images" -> {"img/", "image/", "images/"}
      [] asset_type = "css" -> {"css/", "style/", "styles/"}
      [] asset_type = "js" -> {"js/", "script/", "scripts/", "javascript/"}
      [] asset_type = "fonts" -> {"font/", "fonts/", "css/"}

AliasDirs(asset_type) ==
    CASE asset_type = "images" -> {"img/", "image/", "images/"}
      [] asset_type = "css" -> {"css/", "style/", "styles/"}
      [] asset_type = "js" -> {"js/", "script/", "scripts/", "javascript/"}
      [] asset_type = "fonts" -> {"font/", "fonts/"}

\* f"{asset_type}/" as one atom
CanonDir(asset_type) ==
    CASE asset_type = "images" -> "images/"
      [] asset_type = "css" -> "css/"
      [] asset_type = "js" -> "js/"
      [] asset_type = "fonts" -> "fonts/"

\* only the first leading ./ or ../ removed
SkipOneDotSegment(s) == IF s # <<>> /\ Head(s) \in DotSegments THEN Tail(s) ELSE s

RECURSIVE SkipDotSegments(_)
SkipDotSegments(s) ==
    IF s # <<>> /\ Head(s) \in DotSegments THEN SkipDotSegments(Tail(s)) ELSE s

\* pattern.match(clean_path) for
\*   ^(?:\.\.?/)*(?:assets?/)?(?:<aliases>)/(.+)$   with re.IGNORECASE:
\* [ok, rest] where rest is group(1)
PatternMatch(asset_type, s) ==
    LET a == SkipDotSegments(s)
        b == IF a # <<>> /\ LowerAtom(Head(a)) \in AssetsDirs THEN Tail(a) ELSE a
        hit(x) == /\ x # <<>>
                  /\ LowerAtom(Head(x)) \in AliasDirs(asset_type)
                  /\ Tail(x) # <<>>
                  /\ \A i \in 1..Len(Tail(x)) : Tail(x)[i] # "\n"
    IN  IF hit(b) THEN [ok |-> TRUE, rest |-> Tail(b)]
        ELSE IF hit(a) THEN [ok |-> TRUE, rest |-> Tail(a)]
        ELSE [ok |-> FALSE, rest |-> <<>>]

\* the lexicon's file stems and extensions (an extension atom is ".xyz")
ExtAtoms == {".css", ".scss", ".sass", ".less", ".js", ".mjs", ".ts", ".png", ".jpg",
             ".jpeg", ".gif", ".svg", ".webp", ".ico", ".avif", ".woff", ".woff2",
             ".ttf", ".otf", ".eot", ".txt", ".PNG", ".min"}

StemAtoms == {"logo", "photo", "main", "app", "a", "b", "readme", "data", "bg", "abc",
              "LOGO"}

\* Path(clean_path).suffix.lower(): the last extension of the last path
\* component, "" when the component has none or starts with its only dot
Suffix(s) ==
    IF /\ Len(s) >= 2
       /\ s[Len(s)] \in ExtAtoms
       /\ s[Len(s) - 1] \in (StemAtoms \cup ExtAtoms)
    THEN LowerAtom(s[Len(s)])
    ELSE ""

CssExts == {".css", ".scss", ".sass", ".less"}
JsExts == {".js", ".mjs", ".ts"}
ImageExts == {".png", ".jpg", ".jpeg", ".gif", ".svg", ".webp", ".ico", ".avif"}
FontExts == {".woff", ".woff2", ".ttf", ".otf", ".eot"}

\* the delimiters the two dialects wrap an asset reference in
TwigOpen == <<"{{", " ", "asset(", "'">>
TwigClose == <<"'", ")", " ", "}}">>
PhpOpen == <<"<?php", " ", "echo", " ", "esc_", "url(", "get_template_directory_uri(",
             ")", " ", ".", " ", "'", "/">>
PhpClose == <<"'", ")", ";", " ", "?>">>

\* f"{{{{ asset('{inner}') }}}}"  /
\* f"<?php echo esc_url(get_template_directory_uri() . '/{inner}'); ?>"
AssetExpr(d, inner) ==
    IF d = Twig THEN TwigOpen \o inner \o TwigClose ELSE PhpOpen \o inner \o PhpClose

\* the early return without the dialect's own delimiter
ExternalOnlyPrefixes(d) == {<<"http://">>, <<"https://">>, <<"//">>, <<"data:">>}

\* the prefixes _convert_asset_path returns unchanged
UnchangedPrefixes(d) ==
    {<<"http://">>, <<"https://">>, <<"//">>, <<"data:">>,
     IF d = Twig THEN <<"{{">> ELSE <<"<?php">>}

FirstPattern(clean) ==
    SelectSeq(ASSET_PATTERNS, LAMBDA t : PatternMatch(t, clean).ok)

\* _convert_asset_path(path, default_type); default_type is never read
ConvertAssetPath(d, path) ==
    IF path = <<>> \/ StartsWithAny(path, UnchangedPrefixes(d)) THEN path
    ELSE LET clean == Strip(path)
             hits == FirstPattern(clean)
             rel == SkipDotSegments(clean)
             ext == Suffix(rel)
         IN  IF hits # <<>>
             THEN AssetExpr(d, <<CanonDir(Head(hits))>> \o PatternMatch(Head(hits), clean).rest)
             ELSE IF ext \in CssExts THEN AssetExpr(d, <<"css/">> \o rel)
             ELSE IF ext \in JsExts THEN AssetExpr(d, <<"js/">> \o rel)
             ELSE IF ext \in ImageExts THEN AssetExpr(d, <<"images/">> \o rel)
             ELSE IF ext \in FontExts THEN AssetExpr(d, <<"fonts/">> \o rel)
             ELSE AssetExpr(d, rel)

\* a candidate rewritten without its descriptor
SrcsetPartUrlOnly(d, part) ==
    LET tokens == SplitWhite(Strip(part))
    IN  IF tokens = <<>> THEN <<>> ELSE ConvertAssetPath(d, tokens[1])

\* one candidate of _convert_srcset's loop; <<>> for a blank part
SrcsetPart(d, part) ==
    LET tokens == SplitWhite(Strip(part))
    IN  IF tokens = <<>> THEN <<>>
        ELSE LET new_url == ConvertAssetPath(d, tokens[1])
                 descriptor == Join(Tail(tokens), <<" ">>)
             IN  IF descriptor # <<>> THEN new_url \o <<" ">> \o descriptor ELSE new_url

\* _convert_srcset(srcset)
ConvertSrcset(d, srcset) ==
    LET parts == SplitOn(srcset, ",")
        kept == SelectSeq(parts, LAMBDA p : Strip(p) # <<>>)
        new_parts == [i \in 1..Len(kept) |-> SrcsetPart(d, kept[i])]
    IN  Join(new_parts, <<",", " ">>)

\* url\(["\']?([^"\')\s]+)["\']?\)  tried at atom i of s:
\* [ok, url, next] with url = group(1) and next the atom after the match
UrlGroupAtom(a) == a \notin (WhiteAtoms \cup QuoteAtoms \cup {")"})

RECURSIVE GroupEnd(_, _)
GroupEnd(s, j) == IF j <= Len(s) /\ UrlGroupAtom(s[j]) THEN GroupEnd(s, j + 1) ELSE j

UrlMatchAt(s, i) ==
    LET j == IF i + 1 <= Len(s) /\ s[i + 1] \in QuoteAtoms THEN i + 2 ELSE i + 1
        k == GroupEnd(s, j)
        e == IF k <= Len(s) /\ s[k] \in QuoteAtoms THEN k + 1 ELSE k
    IN  IF /\ i <= Len(s)
           /\ LowerAtom(s[i]) = "url("
           /\ k > j
           /\ e <= Len(s)
           /\ s[e] = ")"
        THEN [ok |-> TRUE, url |-> SubSeq(s, j, k - 1), next |-> e + 1]
        ELSE [ok |-> FALSE, url |-> <<>>, next |-> i + 1]

\* replace_url(match) of _convert_inline_style_urls
ReplaceUrl(d, s, i) ==
    LET m == UrlMatchAt(s, i)
        new_url == ConvertAssetPath(d, m.url)
    IN  IF StartsWithAny(m.url, {<<"http://">>, <<"https://">>, <<"//">>, <<"data:">>})
        THEN SubSeq(s, i, m.next - 1)
        ELSE IF /\ d = Twig
                /\ StartsWith(new_url, <<"{{", " ">>)
                /\ EndsWith(new_url, <<" ", "}}">>)
        THEN <<"url(", "'">> \o SubSeq(new_url, 3, Len(new_url) - 2) \o <<"'", ")">>
        ELSE <<"url(", "'">> \o new_url \o <<"'", ")">>

\* url_pattern.sub(replace_url, style), scanning from atom i
RECURSIVE SubUrls(_, _, _)
SubUrls(d, s, i) ==
    IF i > Len(s) THEN <<>>
    ELSE IF UrlMatchAt(s, i).ok
    THEN ReplaceUrl(d, s, i) \o SubUrls(d, s, UrlMatchAt(s, i).next)
    ELSE <<s[i]>> \o SubUrls(d, s, i + 1)

\* _convert_inline_style_urls(style)
ConvertInlineStyleUrls(d, style) == SubUrls(d, style, 1)

\* @import\s+url\(["\']?([^"\')\s]+)["\']?\)  tried at atom i of s
RECURSIVE WhiteEnd(_, _)
WhiteEnd(s, j) == IF j <= Len(s) /\ s[j] \in WhiteAtoms THEN WhiteEnd(s, j + 1) ELSE j

ImportMatchAt(s, i) ==
    LET u == WhiteEnd(s, i + 1)
    IN  IF i <= Len(s) /\ s[i] = "@import" /\ u > i + 1 /\ UrlMatchAt(s, u).ok
        THEN UrlMatchAt(s, u)
        ELSE [ok |-> FALSE, url |-> <<>>, next |-> i + 1]

\* replace_import(match) of _convert_css_imports
ReplaceImport(d, s, i) ==
    LET m == ImportMatchAt(s, i)
    IN  IF StartsWithAny(m.url, {<<"http://">>, <<"https://">>, <<"//">>})
        THEN SubSeq(s, i, m.next - 1)
        ELSE <<"@import", " ", "url(", "'">> \o ConvertAssetPath(d, m.url) \o <<"'", ")">>

RECURSIVE SubImports(_, _, _)
SubImports(d, s, i) ==
    IF i > Len(s) THEN <<>>
    ELSE IF ImportMatchAt(s, i).ok
    THEN ReplaceImport(d, s, i) \o SubImports(d, s, ImportMatchAt(s, i).next)
    ELSE <<s[i]>> \o SubImports(d, s, i + 1)

\* _convert_css_imports(css_content)
ConvertCssImports(d, css_content) == SubImports(d, css_content, 1)

(***************************************************************************)
(* The document tree.  soup is a sequence of nodes; a node's number is its *)
(* identity.  Node 1 is the BeautifulSoup object.  kids holds a node's     *)
(* contents in order, parent is 0 for None.  Text nodes have tag "#text".  *)
(* An attribute that is absent holds <<>> (the code reads attributes with  *)
(* get(..., "") and tests them for truth).  id, aria and the asset         *)
(* attributes are strings (sequences of atoms); cls is the list of class   *)
(* tokens, each a string; rel is the list of rel tokens.                   *)
(***************************************************************************)
Element(tag, parent) ==
    [tag |-> tag, parent |-> parent, kids |-> <<>>, gone |-> FALSE,
     id |-> <<>>, cls |-> <<>>, rel |-> <<>>, role |-> "", aria |-> <<>>,
     src |-> <<>>, href |-> <<>>, srcset |-> <<>>, style |-> <<>>, poster |-> <<>>,
     text |-> <<>>]

TextNode(parent, text) == [Element("#text", parent) EXCEPT !.text = text]

\* a processing instruction, as html.parser makes of "<?php ... >"
PINode(parent, text) == [Element("#pi", parent) EXCEPT !.text = text]

\* isinstance(c, NavigableString)
IsString(node) == node.tag \in {"#text", "#pi"}

\* isinstance(c, Tag)
IsTag(node) == ~IsString(node) /\ ~node.gone

IndexOf(seq, x) == CHOOSE i \in 1..Len(seq) : seq[i] = x

Without(seq, x) == SelectSeq(seq, LAMBDA y : y # x)

InsertAt(seq, i, x) == SubSeq(seq, 1, i - 1) \o <<x>> \o SubSeq(seq, i, Len(seq))

RECURSIVE Subtree(_, _), SubtreeOfAll(_, _)
Subtree(h, n) == <<n>> \o SubtreeOfAll(h, h[n].kids)
SubtreeOfAll(h, ks) ==
    IF ks = <<>> THEN <<>> ELSE Subtree(h, Head(ks)) \o SubtreeOfAll(h, Tail(ks))

\* Tag.descendants, in document order
Descendants(h, n) == SubtreeOfAll(h, h[n].kids)

ElementKids(h, n) == SelectSeq(h[n].kids, LAMBDA c : IsTag(h[c]))

\* find_all(tag) / find_all([tags]) below n
FindAllTags(h, n, tags) ==
    SelectSeq(Descendants(h, n), LAMBDA m : IsTag(h[m]) /\ h[m].tag \in tags)

\* PageElement.extract()
Extract(h, n) ==
    IF h[n].parent = 0 THEN h
    ELSE [h EXCEPT ![h[n].parent].kids = Without(@, n), ![n].parent = 0]

\* Tag.decompose(): n is extracted, then n and everything below it is emptied
Decompose(h, n) ==
    LET dead == {Subtree(h, n)[i] : i \in 1..Len(Subtree(h, n))}
        h1 == Extract(h, n)
    IN  [m \in 1..Len(h1) |->
            IF m \in dead THEN [Element("", 0) EXCEPT !.gone = TRUE] ELSE h1[m]]

\* n.insert_before(new) / n.insert_after(new) for a new node
InsertBefore(h, n, node) ==
    LET p == h[n].parent
        h1 == Append(h, [node EXCEPT !.parent = p])
    IN  [h1 EXCEPT ![p].kids = InsertAt(@, IndexOf(@, n), Len(h1))]

InsertAfter(h, n, node) ==
    LET p == h[n].parent
        h1 == Append(h, [node EXCEPT !.parent = p])
    IN  [h1 EXCEPT ![p].kids = InsertAt(@, IndexOf(@, n) + 1, Len(h1))]

\* old.replace_with(new) where new is node number m, not in the tree yet
ReplaceWith(h, old, m) ==
    LET p == h[old].parent
    IN  [h EXCEPT ![p].kids = [i \in 1..Len(@) |-> IF @[i] = old THEN m ELSE @[i]],
                  ![m].parent = p,
                  ![old].parent = 0]

\* Tag.string
RECURSIVE StringNode(_, _)
StringNode(h, n) ==
    IF Len(h[n].kids) # 1 THEN 0
    ELSE IF IsString(h[h[n].kids[1]]) THEN h[n].kids[1]
    ELSE StringNode(h, h[n].kids[1])

\* tag.string = text: clear() extracts every child, then one new text node
SetString(h, n, text) ==
    LET old == {h[n].kids[i] : i \in 1..Len(h[n].kids)}
        h1 == [m \in 1..Len(h) |-> IF m \in old THEN [h[m] EXCEPT !.parent = 0] ELSE h[m]]
        h2 == Append(h1, TextNode(n, text))
    IN  [h2 EXCEPT ![n].kids = <<Len(h2)>>]

(***************************************************************************)
(* CSS selectors of the tables: tag, .class, #id, [role='x'] and tag.class *)
(***************************************************************************)
Selector(label, tag, cls, id, role) ==
    [label |-> label, tag |-> tag, cls |-> cls, id |-> id, role |-> role]

Matches(node, sel) ==
    /\ IsTag(node)
    /\ node.tag # "[document]"
    /\ sel.tag # "" => node.tag = sel.tag
    /\ sel.cls # <<>> => \E i \in 1..Len(node.cls) : node.cls[i] = sel.cls
    /\ sel.id # <<>> => node.id = sel.id
    /\ sel.role # "" => node.role = sel.role

\* soup.select(selector): the matches in document order
Select(h, sel) == SelectSeq(Descendants(h, 1), LAMBDA m : Matches(h[m], sel))

NAV_SELECTORS ==
    << Selector("nav", "nav", <<>>, <<>>, ""),
       Selector("ul.nav", "ul", <<"nav">>, <<>>, ""),
       Selector("ul.menu", "ul", <<"menu">>, <<>>, ""),
       Selector("ul.navbar-nav", "ul", <<"navbar", "-", "nav">>, <<>>, ""),
       Selector(".navigation", "", <<"navigation">>, <<>>, ""),
       Selector(".main-menu", "", <<"main", "-", "menu">>, <<>>, "") >>

HeaderSelectors ==
    << Selector("header", "header", <<>>, <<>>, ""),
       Selector(".header", "", <<"header">>, <<>>, ""),
       Selector("#header", "", <<>>, <<"header">>, ""),
       Selector("[role='banner']", "", <<>>, <<>>, "banner") >>

FooterSelectors ==
    << Selector("footer", "footer", <<>>, <<>>, ""),
       Selector(".footer", "", <<"footer">>, <<>>, ""),
       Selector("#footer", "", <<>>, <<"footer">>, ""),
       Selector("[role='contentinfo']", "", <<>>, <<>>, "contentinfo") >>

SidebarSelectors ==
    << Selector(".sidebar", "", <<"sidebar">>, <<>>, ""),
       Selector("#sidebar", "", <<>>, <<"sidebar">>, ""),
       Selector("aside", "aside", <<>>, <<>>, ""),
       Selector("[role='complementary']", "", <<>>, <<>>, "complementary") >>

ContentSelectors ==
    << Selector("main", "main", <<>>, <<>>, ""),
       Selector(".content", "", <<"content">>, <<>>, ""),
       Selector("#content", "", <<>>, <<"content">>, ""),
       Selector(".main-content", "", <<"main", "-", "content">>, <<>>, ""),
       Selector("[role='main']", "", <<>>, <<>>, "main") >>

\* TEMPLATE_PARTS of the WordPress converter
TEMPLATE_PARTS ==
    << [name |-> "header", selectors |-> HeaderSelectors],
       [name |-> "footer", selectors |-> FooterSelectors],
       [name |-> "sidebar", selectors |-> SidebarSelectors],
       [name |-> "content", selectors |-> ContentSelectors] >>

\* BLOCK_PATTERNS of the Twig converter
BLOCK_PATTERNS ==
    TEMPLATE_PARTS \o
    << [name |-> "title", selectors |-> <<Selector("title", "title", <<>>, <<>>, "")>>],
       [name |-> "stylesheets", selectors |-> <<Selector("head", "head", <<>>, <<>>, "")>>],
       [name |-> "javascripts", selectors |-> <<Selector("body", "body", <<>>, <<>>, "")>>] >>

RegionTable(d) == IF d = Twig THEN BLOCK_PATTERNS ELSE TEMPLATE_PARTS

(***************************************************************************)
(* The conversion report.  instance numbers the report objects in the      *)
(* order they are created; instance 0 stands for None.  blocks is          *)
(* block_suggestions (Twig) or template_parts (WordPress).                 *)
(***************************************************************************)
NewReport(k) ==
    [instance |-> k, assets |-> <<>>, blocks |-> <<>>, loops |-> <<>>,
     manual |-> <<>>, warnings |-> <<>>]

NoReport == NewReport(0)

(***************************************************************************)
(* The asset passes.  A pass folds over the elements find_all returned; st *)
(* is [soup, report, raised]: raised is set when self.report is None and a *)
(* method of it is called (AttributeError), which ends the pass there.     *)
(***************************************************************************)
Delimiter(d) == IF d = Twig THEN <<"{{">> ELSE <<"<?php">>

\* the prefixes the passes test before they call _convert_asset_path
ImgSkips(d) == {<<"http://">>, <<"https://">>, <<"//">>, <<"data:">>, Delimiter(d)}
LinkSkips(d) == {<<"http://">>, <<"https://">>, <<"//">>, Delimiter(d)}

\* report.add_asset(original, converted, tag_type)
AssetRecord(original, converted, tag_type) ==
    [original |-> original, converted |-> converted, type |-> tag_type]

\* a rewrite that reads the element kind: a path the classifier puts under
\* no category directory goes under the directory of the kind
RewritePathByKind(d, st, n, attr, skips, tag_type) ==
    LET value == st.soup[n][attr]
        plain == ConvertAssetPath(d, value)
        rel == SkipDotSegments(Strip(value))
        new == IF plain # value /\ plain = AssetExpr(d, rel)
               THEN AssetExpr(d, <<IF tag_type = "css" THEN "css/"
                                   ELSE IF tag_type = "js" THEN "js/" ELSE "images/">> \o rel)
               ELSE plain
    IN  IF st.raised \/ value = <<>> \/ StartsWithAny(value, skips) \/ new = value THEN st
        ELSE IF st.report.instance = 0 THEN [st EXCEPT !.raised = TRUE]
        ELSE [st EXCEPT !.report.assets = Append(@, AssetRecord(value, new, tag_type)),
                        !.soup[n][attr] = new]

\* new = _convert_asset_path(value); if new != value: add_asset(...); elem[attr] = new
RewritePath(d, st, n, attr, skips, tag_type) ==
    LET value == st.soup[n][attr]
        new == ConvertAssetPath(d, value)
    IN  IF st.raised \/ value = <<>> \/ StartsWithAny(value, skips) \/ new = value THEN st
        ELSE IF st.report.instance = 0 THEN [st EXCEPT !.raised = TRUE]
        ELSE [st EXCEPT !.report.assets = Append(@, AssetRecord(value, new, tag_type)),
                        !.soup[n][attr] = new]

\* new_srcset = _convert_srcset(srcset); if new_srcset != srcset: elem["srcset"] = ...
RewriteSrcset(d, st, n) ==
    LET srcset == st.soup[n].srcset
    IN  IF st.raised \/ srcset = <<>> \/ StartsWith(srcset, Delimiter(d)) THEN st
        ELSE [st EXCEPT !.soup[n].srcset = ConvertSrcset(d, srcset)]

\* new_style = _convert_inline_style_urls(style); elem["style"] = new_style
RewriteInlineStyle(d, st, n) ==
    IF st.raised THEN st
    ELSE [st EXCEPT !.soup[n].style = ConvertInlineStyleUrls(d, st.soup[n].style)]

\* if style.string: new_content = _convert_css_imports(style.string); ...
RewriteStyleElement(d, st, n) ==
    LET t == StringNode(st.soup, n)
        content == st.soup[t].text
        new_content == ConvertCssImports(d, content)
    IN  IF st.raised \/ t = 0 THEN st
        ELSE IF content = <<>> \/ new_content = content THEN st
        ELSE [st EXCEPT !.soup = SetString(@, n, new_content)]

\* the body of each for loop of the passes
PassStep(d, loop, st, n) ==
    CASE loop = "img" ->
            RewriteSrcset(d, RewritePath(d, st, n, "src", ImgSkips(d), "img"), n)
      [] loop = "stylesheet" -> RewritePath(d, st, n, "href", LinkSkips(d), "css")
      [] loop = "style" -> RewriteStyleElement(d, st, n)
      [] loop = "script" -> RewritePath(d, st, n, "src", LinkSkips(d), "js")
      [] loop = "icon" -> RewritePath(d, st, n, "href", LinkSkips(d), "favicon")
      [] loop = "inline" -> RewriteInlineStyle(d, st, n)
      [] loop = "source" ->
            RewriteSrcset(d, RewritePath(d, st, n, "src", LinkSkips(d), "source"), n)
      [] loop = "video" -> RewritePath(d, st, n, "poster", LinkSkips(d), "video-poster")

RECURSIVE PassLoop(_, _, _, _)
PassLoop(d, loop, st, ns) ==
    IF ns = <<>> THEN st ELSE PassLoop(d, loop, PassStep(d, loop, st, Head(ns)), Tail(ns))

\* rel=lambda x: x and "icon" in x.lower(), on the rel tokens of the lexicon
IconRelTokens == {"icon", "apple-touch-icon", "Icon"}

\* the elements each loop ranges over
PassElements(h, loop) ==
    LET all == Descendants(h, 1)
        els(P(_)) == SelectSeq(all, LAMBDA m : IsTag(h[m]) /\ P(h[m]))
        HasRel(node, tokens) == \E i \in 1..Len(node.rel) : node.rel[i] \in tokens
        IsImg(node) == node.tag = "img"
        IsSheet(node) == node.tag = "link" /\ HasRel(node, {"stylesheet"})
        IsStyle(node) == node.tag = "style"
        IsScript(node) == node.tag = "script" /\ node.src # <<>>
        IsIcon(node) == node.tag = "link" /\ HasRel(node, IconRelTokens)
        IsInline(node) == node.style # <<>>
        IsSource(node) == node.tag = "source"
        IsVideo(node) == node.tag = "video"
    IN  CASE loop = "img" -> els(IsImg)
          [] loop = "stylesheet" -> els(IsSheet)
          [] loop = "style" -> els(IsStyle)
          [] loop = "script" -> els(IsScript)
          [] loop = "icon" -> els(IsIcon)
          [] loop = "inline" -> els(IsInline)
          [] loop = "source" -> els(IsSource)
          [] loop = "video" -> els(IsVideo)

RunLoop(d, loop, st) ==
    IF st.raised THEN st ELSE PassLoop(d, loop, st, PassElements(st.soup, loop))

\* _convert_images
ConvertImagesPass(d, st) == RunLoop(d, "img", st)

\* _convert_stylesheets: the WordPress converter has no <style> loop
ConvertStylesheetsPass(d, st) ==
    IF d = Twig THEN RunLoop(d, "style", RunLoop(d, "stylesheet", st))
    ELSE RunLoop(d, "stylesheet", st)

\* _convert_scripts
ConvertScriptsPass(d, st) == RunLoop(d, "script", st)

\* _convert_other_assets: the WordPress converter stops after inline styles
ConvertOtherAssetsPass(d, st) ==
    IF d = Twig
    THEN RunLoop(d, "video", RunLoop(d, "source", RunLoop(d, "inline", RunLoop(d, "icon", st))))
    ELSE RunLoop(d, "inline", RunLoop(d, "icon", st))

(***************************************************************************)
(* Navigation rewriting                                                    *)
(***************************************************************************)
\* a comparison that takes the text children for children too
SimilarWithText(h, elem1, elem2) ==
    LET names(e) == [i \in 1..Len(h[e].kids) |-> h[h[e].kids[i]].tag]
    IN  h[elem1].tag = h[elem2].tag /\ names(elem1) = names(elem2)

\* _elements_similar(elem1, elem2), the same in both converters
ElementsSimilar(h, elem1, elem2) ==
    LET names(e) == [i \in 1..Len(ElementKids(h, e)) |-> h[ElementKids(h, e)[i]].tag]
    IN  h[elem1].tag = h[elem2].tag /\ names(elem1) = names(elem2)

\* sum(1 for item in items[1:] if self._elements_similar(items[0], item))
SimilarCount(h, items) ==
    Cardinality({i \in 2..Len(items) : ElementsSimilar(h, items[1], items[i])})

Pad8 == [i \in 1..8 |-> " "]

\* str.replace(old, new) for one-atom old and new
Replace(s, old, new) == [i \in 1..Len(s) |-> IF s[i] = old THEN new ELSE s[i]]

\* str.title() on the word atoms of the lexicon
TitleAtom(a) ==
    CASE LowerAtom(a) = "main" -> "Main"
      [] LowerAtom(a) = "nav" -> "Nav"
      [] LowerAtom(a) = "menu" -> "Menu"
      [] LowerAtom(a) = "navbar" -> "Navbar"
      [] LowerAtom(a) = "navigation" -> "Navigation"
      [] LowerAtom(a) = "site" -> "Site"
      [] LowerAtom(a) = "top" -> "Top"
      [] OTHER -> a

Title(s) == [i \in 1..Len(s) |-> TitleAtom(s[i])]

\* "nav" in cls.lower() or "menu" in cls.lower(), on the atoms of the lexicon
NavOrMenuAtoms == {"nav", "navbar", "navigation", "menu"}

MentionsNavOrMenu(cls) == \E i \in 1..Len(cls) : LowerAtom(cls[i]) \in NavOrMenuAtoms

\* a naming that looks at aria-label before the class tokens
DetectMenuNameLabelFirst(d, node) ==
    LET named == SelectSeq(node.cls, MentionsNavOrMenu)
    IN  IF d = Twig
        THEN IF node.id # <<>> THEN Replace(node.id, "-", "_")
             ELSE IF node.aria # <<>>
             THEN Replace(Replace(Lower(node.aria), " ", "_"), "-", "_")
             ELSE IF named # <<>> THEN Replace(Head(named), "-", "_")
             ELSE <<"menu">>
        ELSE IF node.id # <<>> THEN Title(Replace(Replace(node.id, "-", " "), "_", " "))
             ELSE IF node.aria # <<>> THEN node.aria
             ELSE IF named # <<>>
             THEN Title(Replace(Replace(Head(named), "-", " "), "_", " "))
             ELSE <<"Primary", " ", "Menu">>

\* _detect_menu_name(nav)
DetectMenuName(d, node) ==
    LET named == SelectSeq(node.cls, MentionsNavOrMenu)
    IN  IF d = Twig
        THEN IF node.id # <<>> THEN Replace(node.id, "-", "_")
             ELSE IF named # <<>> THEN Replace(Head(named), "-", "_")
             ELSE IF node.aria # <<>>
             THEN Replace(Replace(Lower(node.aria), " ", "_"), "-", "_")
             ELSE <<"menu">>
        ELSE IF node.id # <<>> THEN Title(Replace(Replace(node.id, "-", " "), "_", " "))
             ELSE IF named # <<>>
             THEN Title(Replace(Replace(Head(named), "-", " "), "_", " "))
             ELSE IF node.aria # <<>> THEN node.aria
             ELSE <<"Primary", " ", "Menu">>

\* the markers and placeholders _wrap_nav_items writes
LoopStart(menu_name) ==
    <<"{%", " ", "for", " ", "item", " ", "in", " ">> \o menu_name \o <<"_items", " ", "%}", "\n">>
LoopEnd == <<"\n", "{%", " ", "endfor", " ", "%}">>
ItemUrl == <<"{{", " ", "item.url", " ", "}}">>
ItemLabel == <<"{{", " ", "item.label", " ", "}}">>
ActiveClass == <<"{{", " ", "item.active", " ", "?", " ", "'", "active", "'", " ", ":", " ",
                 "'", "'", " ", "}}">>

IsBlank(text) == Strip(text) = <<>>

\* the link part of _wrap_nav_items: href and label of first_item.find("a")
RewriteLink(h, first_item) ==
    LET links == FindAllTags(h, first_item, {"a"})
        link == Head(links)
        h1 == [h EXCEPT ![link].href = ItemUrl]
        str == StringNode(h1, link)
        texts == SelectSeq(h1[link].kids,
                           LAMBDA c : IsString(h1[c]) /\ ~IsBlank(h1[c].text))
        h2 == Append(h1, TextNode(0, ItemLabel))
    IN  IF links = <<>> THEN h
        ELSE IF str # 0 /\ h1[str].text # <<>> THEN SetString(h1, link, ItemLabel)
        ELSE IF texts # <<>> THEN ReplaceWith(h2, Head(texts), Len(h2))
        ELSE h1

\* _wrap_nav_items without the removal of the other items
KeepAll(h, ns) == h

RECURSIVE DecomposeAll(_, _)
DecomposeAll(h, ns) ==
    IF ns = <<>> THEN h ELSE DecomposeAll(Decompose(h, Head(ns)), Tail(ns))

\* _wrap_nav_items(parent_ul, items, menu_name); the class attribute becomes
\* one string, held here as its whitespace-separated tokens
WrapNavItems(h, items, menu_name) ==
    LET first_item == items[1]
        h1 == RewriteLink(h, first_item)
        h2 == [h1 EXCEPT ![first_item].cls = @ \o <<ActiveClass>>]
        h3 == InsertBefore(h2, first_item, TextNode(0, LoopStart(menu_name)))
        h4 == DecomposeAll(h3, Tail(items))
    IN  InsertAfter(h4, first_item, TextNode(0, LoopEnd))

\* nav.find("ul") if nav.name != "ul" else nav; 0 for None
ParentUl(h, nav) ==
    IF h[nav].tag = "ul" THEN nav
    ELSE IF FindAllTags(h, nav, {"ul"}) = <<>> THEN 0
    ELSE Head(FindAllTags(h, nav, {"ul"}))

\* the php_code of the WordPress _convert_nav_element, split where
\* html.parser splits it: the processing instruction ends at the first ">"
Indent == <<" ", " ", " ", " ">>
PhpMenuHead ==
    <<"<?", "php", "\n", "wp_nav_menu(", "array(", "\n">> \o Indent
       \o <<"'", "theme_location", "'", " ", "=", ">">>
PhpMenuTail(menu_location, ul_classes) ==
    <<" ", "'">> \o menu_location \o <<"'", ",", "\n">> \o Indent
       \o <<"'", "menu_class", "'", " ", " ", " ", " ", " ", "=", ">", " ", "'">>
       \o ul_classes \o <<"'", ",", "\n">> \o Indent
       \o <<"'", "container", "'", " ", " ", " ", " ", " ", " ", "=", ">", " ", "false", ",", "\n">>
       \o Indent
       \o <<"'", "fallback_cb", "'", " ", " ", " ", " ", "=", ">", " ", "false", ",", "\n",
            ")", ")", ";", "\n", "?", ">">>

\* the loop record and the suggestion of each converter
NavLoopRecord(d, menu_name) ==
    IF d = Twig
    THEN [element |-> <<"<nav> / <ul> menu">>, items_var |-> menu_name \o <<"_items">>,
          item_var |-> <<"item">>]
    ELSE [element |-> <<"Navigation menu: ">> \o menu_name, loop_type |-> <<"wp_nav_menu()">>]

MenuLocation(menu_name) == Replace(Replace(Lower(menu_name), " ", "_"), "-", "_")

NavSuggestion(d, menu_name) ==
    IF d = Twig
    THEN <<"Review the '">> \o menu_name
            \o <<"' navigation loop and adjust variable names as needed.">>
    ELSE <<"Register menu location '">> \o MenuLocation(menu_name)
            \o <<"' in functions.php:", "\n", "register_nav_menus(array('">>
            \o MenuLocation(menu_name) \o <<"' => __('">> \o menu_name
            \o <<"', '", "theme_name", "')));">>

\* a synthetic <nav> whose menu_class is the class of nav, not of its list
ReplaceByWpMenuOwnClass(h, nav, menu_name) ==
    LET wp == Len(h) + 1
        h1 == h \o << [Element("nav", 0) EXCEPT !.cls = h[nav].cls, !.id = h[nav].id,
                                                !.kids = <<wp + 1>>],
                      [Element("[document]", wp) EXCEPT !.kids = <<wp + 2, wp + 3>>],
                      PINode(wp + 1, PhpMenuHead),
                      TextNode(wp + 1, PhpMenuTail(MenuLocation(menu_name),
                                                   Join(h[nav].cls, <<" ">>))) >>
    IN  ReplaceWith(h1, nav, wp)

\* the synthetic <nav> of the WordPress converter replaces nav
ReplaceByWpMenu(h, nav, menu_name) ==
    LET wp == Len(h) + 1
        ul_classes == Join(h[ParentUl(h, nav)].cls, <<" ">>)
        h1 == h \o << [Element("nav", 0) EXCEPT !.cls = h[nav].cls, !.id = h[nav].id,
                                                !.kids = <<wp + 1>>],
                      [Element("[document]", wp) EXCEPT !.kids = <<wp + 2, wp + 3>>],
                      PINode(wp + 1, PhpMenuHead),
                      TextNode(wp + 1, PhpMenuTail(MenuLocation(menu_name), ul_classes)) >>
    IN  ReplaceWith(h1, nav, wp)

\* report.add_loop(...); report.add_suggestion(...): AttributeError on None
AddNavRecords(d, st, menu_name) ==
    IF st.report.instance = 0 THEN [st EXCEPT !.raised = TRUE]
    ELSE [st EXCEPT !.report.loops = Append(@, NavLoopRecord(d, menu_name)),
                    !.report.manual = Append(@, NavSuggestion(d, menu_name))]

\* the threshold as a strict majority
IsStrictMajority(h, items) == SimilarCount(h, items) > Len(items) \div 2

\* if similar_count >= len(items) // 2
IsRepeatedMenu(h, items) == SimilarCount(h, items) >= Len(items) \div 2

\* _convert_nav_element(nav)
ConvertNavElement(d, st, nav) ==
    LET h == st.soup
        items == FindAllTags(h, nav, {"li"})
        menu_name == DetectMenuName(d, h[nav])
    IN  IF Len(items) < 2 THEN st
        ELSE IF IsRepeatedMenu(h, items) /\ ParentUl(h, nav) # 0
        THEN IF d = Twig
             THEN AddNavRecords(d, [st EXCEPT !.soup = WrapNavItems(h, items, menu_name)],
                                menu_name)
             ELSE AddNavRecords(d, [st EXCEPT !.soup = ReplaceByWpMenu(h, nav, menu_name)],
                                menu_name)
        ELSE st

(***************************************************************************)
(* Region and repetition detection                                         *)
(***************************************************************************)
\* labels of the selectors whose query raises: soup.select(selector) can
\* raise, which the detection passes expect (except Exception: continue)
VARIABLE failing

\* the selectors of a region that match; <<>> when none does.  A selector
\* whose query raises is passed over by the except clause.
FirstMatching(h, selectors) ==
    SelectSeq(selectors, LAMBDA sel : sel.label \notin failing /\ Select(h, sel) # <<>>)

BlockRecord(name, sel) ==
    [name |-> name, reason |-> <<"Detected ", sel.label, " element(s)">>]

PartSuggestion(name, sel) ==
    <<"Consider extracting ", sel.label, " to template-parts/", name, ".php">>

\* a region scan without the break: one record per matching selector
DetectRegionNoBreak(d, st, region) ==
    LET found == FirstMatching(st.soup, region.selectors)
    IN  [st EXCEPT !.report.blocks =
            @ \o [i \in 1..Len(found) |-> BlockRecord(region.name, found[i])]]

\* one region of _detect_blocks / _detect_template_parts: the first selector
\* that matches adds the record and breaks.  On a None report every add
\* raises AttributeError inside the try, so every selector is skipped.
DetectRegion(d, st, region) ==
    LET found == FirstMatching(st.soup, region.selectors)
    IN  IF found = <<>> \/ st.report.instance = 0 THEN st
        ELSE IF d = Twig
        THEN [st EXCEPT !.report.blocks = Append(@, BlockRecord(region.name, Head(found)))]
        ELSE [st EXCEPT !.report.blocks = Append(@, BlockRecord(region.name, Head(found))),
                        !.report.manual = Append(@, PartSuggestion(region.name, Head(found)))]

RECURSIVE DetectRegions(_, _, _)
DetectRegions(d, st, regions) ==
    IF regions = <<>> THEN st
    ELSE DetectRegions(d, DetectRegion(d, st, Head(regions)), Tail(regions))

\* _detect_blocks / _detect_template_parts
DetectBlocksPass(d, st) == DetectRegions(d, st, RegionTable(d))

\* a container name that ignores id and class
ContainerLiteral(node) == <<"container">>

\* container.get("id", first class token or "container")
ContainerId(node) ==
    IF node.id # <<>> THEN node.id
    ELSE IF node.cls # <<>> THEN node.cls[1]
    ELSE <<"container">>

RepeatSuggestion(d, container_id, similar_count) ==
    <<IF d = Twig THEN "Consider using a for loop for repeated elements in '"
                  ELSE "Consider using a loop for repeated elements in '">>
       \o container_id \o <<"' (", ToString(similar_count + 1), " similar children found)">>

\* "post" in str(first_child.get("class", [])).lower(), on the lexicon
PostAtoms == {"post", "posts"}

\* a post is known by its tag only
LooksLikeArticle(node) == node.tag = "article"

LooksLikePost(node) ==
    \/ node.tag = "article"
    \/ \E i \in 1..Len(node.cls) :
          \E j \in 1..Len(node.cls[i]) : LowerAtom(node.cls[i][j]) \in PostAtoms

PostLoopRecord(container_id) ==
    [element |-> <<"Post list in '">> \o container_id \o <<"'">>,
     loop_type |-> <<"WordPress The Loop (while have_posts())">>]

PostSuggestion(container_id) ==
    <<"Replace repeated articles in '">> \o container_id
       \o <<"' with WordPress The Loop:", "\n", "<?php", " ", "if (have_posts()) ...">>

\* a detection that also folds the repeated children into the first one
DetectContainerFolding(d, st, container) ==
    LET children == ElementKids(st.soup, container)
    IN  IF st.raised \/ Len(children) < 3 \/ SimilarCount(st.soup, children) < 2 THEN st
        ELSE [st EXCEPT !.soup = DecomposeAll(@, Tail(children)),
                        !.report.manual =
                            Append(@, RepeatSuggestion(d, ContainerId(st.soup[container]),
                                                       SimilarCount(st.soup, children)))]

\* the body of the loop of _detect_repetitive_elements / _detect_loop_elements
DetectContainer(d, st, container) ==
    LET h == st.soup
        children == ElementKids(h, container)
        similar_count == SimilarCount(h, children)
        container_id == ContainerId(h[container])
    IN  IF st.raised \/ Len(children) < 3 \/ similar_count < 2 THEN st
        ELSE IF st.report.instance = 0 THEN [st EXCEPT !.raised = TRUE]
        ELSE IF d = WordPress /\ LooksLikePost(h[children[1]])
        THEN [st EXCEPT !.report.loops = Append(@, PostLoopRecord(container_id)),
                        !.report.manual = Append(@, PostSuggestion(container_id))]
        ELSE [st EXCEPT !.report.manual =
                            Append(@, RepeatSuggestion(d, container_id, similar_count))]

RECURSIVE DetectContainers(_, _, _)
DetectContainers(d, st, containers) ==
    IF containers = <<>> THEN st
    ELSE DetectContainers(d, DetectContainer(d, st, Head(containers)), Tail(containers))

\* repetition detection whose suggestions go to the front of the log
DetectRepetitiveAhead(d, st) ==
    LET after == DetectContainers(d, st, FindAllTags(st.soup, 1, {"div", "section", "article"}))
        had == Len(st.report.manual)
    IN  IF after.report.instance = 0 THEN after
        ELSE [after EXCEPT !.report.manual =
                 SubSeq(after.report.manual, had + 1, Len(after.report.manual))
                    \o st.report.manual]

\* _detect_repetitive_elements / _detect_loop_elements
DetectRepetitivePass(d, st) ==
    DetectContainers(d, st, FindAllTags(st.soup, 1, {"div", "section", "article"}))

(***************************************************************************)
(* Output assembly: str(soup), the clean-up of the text and the wrapping   *)
(***************************************************************************)
\* the elements the serialiser closes in their start tag
VoidTags == {"img", "link", "meta", "br", "hr", "input", "source"}

\* the serialiser's entity substitution, on the atoms that hold & < or >
EscapeAtom(a) ==
    CASE a = "<?php" -> "&lt;?php"
      [] a = "?>" -> "?&gt;"
      [] a = "<%" -> "&lt;%"
      [] a = "%>" -> "%&gt;"
      [] a = "<{" -> "&lt;{"
      [] a = "}>" -> "}&gt;"
      [] a = "<" -> "&lt;"
      [] a = ">" -> "&gt;"
      [] a = "&" -> "&amp;"
      [] OTHER -> a

Escape(s) == [i \in 1..Len(s) |-> EscapeAtom(s[i])]

\* an attribute value in its quotes: double quotes unless the value holds
\* one, then single quotes, and &quot; when it holds both
QuotedValue(v) ==
    LET e == Escape(v)
        has(q) == \E i \in 1..Len(e) : e[i] = q
    IN  IF ~has("\"") THEN <<"\"">> \o e \o <<"\"">>
        ELSE IF ~has("'") THEN <<"'">> \o e \o <<"'">>
        ELSE <<"\"">> \o Replace(e, "\"", "&quot;") \o <<"\"">>

Attribute(name, v) == IF v = <<>> THEN <<>> ELSE <<" ", name, "=">> \o QuotedValue(v)

\* the attributes of a start tag, in the order the documents write them
Attributes(node) ==
    Attribute("id", node.id) \o Attribute("class", Join(node.cls, <<" ">>))
       \o Attribute("rel", Join([i \in 1..Len(node.rel) |-> <<node.rel[i]>>], <<" ">>))
       \o Attribute("role", IF node.role = "" THEN <<>> ELSE <<node.role>>)
       \o Attribute("aria-label", node.aria) \o Attribute("src", node.src)
       \o Attribute("href", node.href) \o Attribute("srcset", node.srcset)
       \o Attribute("style", node.style) \o Attribute("poster", node.poster)

\* str(node): the text of <script> and <style> is written as it is
RECURSIVE Str(_, _), StrAll(_, _)
Str(h, n) ==
    LET node == h[n]
        raw == node.parent # 0 /\ h[node.parent].tag \in {"script", "style"}
    IN  IF node.tag = "#text" THEN (IF raw THEN node.text ELSE Escape(node.text))
        ELSE IF node.tag = "#pi" THEN node.text
        ELSE IF node.tag = "[document]" THEN StrAll(h, node.kids)
        ELSE IF node.tag \in VoidTags /\ node.kids = <<>>
        THEN <<"<", node.tag>> \o Attributes(node) \o <<"/>">>
        ELSE <<"<", node.tag>> \o Attributes(node) \o <<">">> \o StrAll(h, node.kids)
                \o <<"</", node.tag, ">">>
StrAll(h, ks) == IF ks = <<>> THEN <<>> ELSE Str(h, Head(ks)) \o StrAll(h, Tail(ks))

\* html.replace("&lt;%", "{%") and the three replacements after it
UnescapeTwigAtom(a) ==
    CASE a = "&lt;%" -> "{%"
      [] a = "%&gt;" -> "%}"
      [] a = "&lt;{" -> "{{"
      [] a = "}&gt;" -> "}}"
      [] OTHER -> a

\* the atoms that hold a percent sign
PercentAtoms == {"{%", "%}", "%"}

RECURSIVE NextPercent(_, _)
NextPercent(s, j) ==
    IF j <= Len(s) /\ s[j] \notin PercentAtoms THEN NextPercent(s, j + 1) ELSE j

\* (\{%[^%]+%\}) tried at atom i of s: [ok, next]
TwigTagAt(s, i) ==
    LET k == NextPercent(s, i + 1)
    IN  IF i <= Len(s) /\ s[i] = "{%" /\ k > i + 1 /\ k <= Len(s) /\ s[k] = "%}"
        THEN [ok |-> TRUE, next |-> k + 1]
        ELSE [ok |-> FALSE, next |-> i + 1]

\* the leftmost atom of a non-empty set of positions
Leftmost(at) == CHOOSE j \in at : \A k \in at : j <= k

\* re.sub(r"(\{%[^%]+%\})", r"\n\1\n", html), scanning from atom i: the
\* text up to the next match is copied, the match is surrounded
RECURSIVE SurroundTwigTags(_, _)
SurroundTwigTags(s, i) ==
    LET at == {j \in i..Len(s) : TwigTagAt(s, j).ok}
        j == Leftmost(at)
    IN  IF at = {} THEN SubSeq(s, i, Len(s))
        ELSE SubSeq(s, i, j - 1) \o <<"\n">> \o SubSeq(s, j, TwigTagAt(s, j).next - 1)
                \o <<"\n">> \o SurroundTwigTags(s, TwigTagAt(s, j).next)

RECURSIVE NewlineEnd(_, _)
NewlineEnd(s, j) == IF j <= Len(s) /\ s[j] = "\n" THEN NewlineEnd(s, j + 1) ELSE j

\* re.sub(r"\n{3,}", "\n\n", html), scanning from atom i: the text up to
\* the next run of three or more newlines is copied, the run becomes two
RECURSIVE CollapseNewlines(_, _)
CollapseNewlines(s, i) ==
    LET at == {j \in i..Len(s) : s[j] = "\n" /\ NewlineEnd(s, j) >= j + 3}
        j == Leftmost(at)
    IN  IF at = {} THEN SubSeq(s, i, Len(s))
        ELSE SubSeq(s, i, j - 1) \o <<"\n", "\n">> \o CollapseNewlines(s, NewlineEnd(s, j))

\* _cleanup_html_output(html)
CleanupHtmlOutput(html) ==
    LET fixed == [i \in 1..Len(html) |-> UnescapeTwigAtom(html[i])]
    IN  CollapseNewlines(SurroundTwigTags(fixed, 1), 1)

\* Tag.get_text(strip=True): the stripped strings below n, the empty ones left out
GetText(h, n) ==
    LET strings == SelectSeq(Descendants(h, n), LAMBDA m : h[m].tag = "#text")
    IN  Join([i \in 1..Len(strings) |-> Strip(h[strings[i]].text)], <<>>)

\* the first element below n with one of the tags; 0 for None
Find(h, n, tags) ==
    IF FindAllTags(h, n, tags) = <<>> THEN 0 ELSE Head(FindAllTags(h, n, tags))

\* re.compile(r"content|main", re.IGNORECASE).search(token), on the lexicon
ContentOrMainAtoms == {"content", "main"}

MentionsContentOrMain(token) ==
    \E i \in 1..Len(token) : LowerAtom(token[i]) \in ContentOrMainAtoms

\* body.find(class_=re.compile(r"content|main", re.IGNORECASE)); 0 for None
FindByClass(h, n) ==
    LET found == SelectSeq(Descendants(h, n),
                           LAMBDA m : /\ IsTag(h[m])
                                      /\ \E i \in 1..Len(h[m].cls) :
                                            MentionsContentOrMain(h[m].cls[i]))
    IN  IF found = <<>> THEN 0 ELSE Head(found)

\* str(element) in the second parse of _add_layout_structure: the parser
\* reads back the cleaned text, whose substitutions stay inside one string
ParsedStr(h, ns) == CleanupHtmlOutput(StrAll(h, ns))

\* the lines of _add_layout_structure
ExtendsLine(layout) ==
    <<"{%", " ", "extends", " ", "'", layout, ".html.twig", "'", " ", "%}", "\n">>
BlockTag(name) == <<"{%", " ", "block", " ", name, " ", "%}">>
EndBlock == <<"{%", " ", "endblock", " ", "%}">>
ParentCall == Indent \o <<"{{", " ", "parent()", " ", "}}">>

\* the title block
TitleLines(h) ==
    LET title == Find(h, 1, {"title"})
    IN  IF title = 0 THEN <<>>
        ELSE <<BlockTag("title") \o GetText(h, title) \o EndBlock \o <<"\n">>>>

\* child.name == "link" and child.get("rel") == ["stylesheet"], or a <style>
IsStylesheetChild(node) ==
    \/ node.tag = "link" /\ node.rel = <<"stylesheet">>
    \/ node.tag = "style"

\* the stylesheets block: the stylesheet links and <style> children of head
StylesheetLines(h) ==
    LET head == Find(h, 1, {"head"})
        stylesheets == SelectSeq(ElementKids(h, head), LAMBDA c : IsStylesheetChild(h[c]))
    IN  IF head = 0 \/ stylesheets = <<>> THEN <<>>
        ELSE <<<<"\n">> \o BlockTag("stylesheets"), ParentCall>>
                \o [i \in 1..Len(stylesheets) |-> Indent \o ParsedStr(h, <<stylesheets[i]>>)]
                \o <<EndBlock \o <<"\n">>>>

\* main_content: body.find(["main", "article"]) or body.find(class_=...)
MainContent(h, body) ==
    IF Find(h, body, {"main", "article"}) # 0 THEN Find(h, body, {"main", "article"})
    ELSE FindByClass(h, body)

\* the body block: the main content region, else all the children of body
BodyLines(h) ==
    LET body == Find(h, 1, {"body"})
        main_content == MainContent(h, body)
    IN  IF body = 0 THEN <<>>
        ELSE << <<"\n">> \o BlockTag("body"),
                IF main_content # 0 THEN ParsedStr(h, <<main_content>>)
                ELSE ParsedStr(h, h[body].kids),
                EndBlock \o <<"\n">> >>

\* the javascripts block: body.find_all("script")
ScriptLines(h) ==
    LET body == Find(h, 1, {"body"})
        scripts == FindAllTags(h, body, {"script"})
    IN  IF body = 0 \/ scripts = <<>> THEN <<>>
        ELSE <<<<"\n">> \o BlockTag("javascripts"), ParentCall>>
                \o [i \in 1..Len(scripts) |-> Indent \o ParsedStr(h, <<scripts[i]>>)]
                \o <<EndBlock \o <<"\n">>>>

\* the wrapping with the javascripts block ahead of the body block
AddLayoutScriptsFirst(layout, h) ==
    Join(<<ExtendsLine(layout)>> \o TitleLines(h) \o StylesheetLines(h) \o ScriptLines(h)
            \o BodyLines(h),
         <<"\n">>)

\* _add_layout_structure(html)
AddLayoutStructure(layout, h) ==
    Join(<<ExtendsLine(layout)>> \o TitleLines(h) \o StylesheetLines(h) \o BodyLines(h)
            \o ScriptLines(h),
         <<"\n">>)

\* self.layout is None
NoLayout == ""

\* _generate_twig_output()
GenerateTwigOutput(layout, h) ==
    IF layout # NoLayout THEN AddLayoutStructure(layout, h)
    ELSE CleanupHtmlOutput(Str(h, 1))

\* theme_name, as the command line passes it by default
theme_name == "mytheme"

\* php_header and php_footer
PhpHeader ==
    <<"<?php", "\n", "/**", "\n", " * Template Name: Custom Page Template", "\n", " *", "\n",
      " * @package ", theme_name, "\n", " */", "\n", "\n", "get_header();", "\n", "?>", "\n",
      "\n">>
PhpFooter ==
    <<"\n", "\n", "<?php", "\n", "get_sidebar();", "\n", "get_footer();", "\n">>

\* re.search(r"<body[^>]*>(.*?)</body>", html, re.DOTALL | re.IGNORECASE):
\* group(1), or html when there is no match
BodyContent(html) ==
    LET opens == {i \in 1..(Len(html) - 1) : html[i] = "<" /\ html[i + 1] = "body"}
        open == CHOOSE i \in opens : \A j \in opens : i <= j
        ends == {i \in (open + 2)..Len(html) : html[i] \in {">", "/>"}}
        end == CHOOSE i \in ends : \A j \in ends : i <= j
        closes == {i \in (end + 1)..(Len(html) - 2) :
                      html[i] = "</" /\ html[i + 1] = "body" /\ html[i + 2] = ">"}
        close == CHOOSE i \in closes : \A j \in closes : i <= j
    IN  IF opens = {} THEN html
        ELSE IF ends = {} THEN html
        ELSE IF closes = {} THEN html
        ELSE SubSeq(html, end + 1, close - 1)

\* <\?php\s*\?> tried at atom i of s: the atom after the match, i when none
EmptyPhpEnd(s, i) ==
    IF /\ i <= Len(s)
       /\ s[i] = "<?php"
       /\ WhiteEnd(s, i + 1) <= Len(s)
       /\ s[WhiteEnd(s, i + 1)] = "?>"
    THEN WhiteEnd(s, i + 1) + 1
    ELSE i

\* re.sub(r"<\?php\s*\?>", "", content), scanning from atom i
RECURSIVE RemoveEmptyPhp(_, _)
RemoveEmptyPhp(s, i) ==
    LET at == {j \in i..Len(s) : EmptyPhpEnd(s, j) > j}
        j == Leftmost(at)
    IN  IF at = {} THEN SubSeq(s, i, Len(s))
        ELSE SubSeq(s, i, j - 1) \o RemoveEmptyPhp(s, EmptyPhpEnd(s, j))

\* content.replace("&lt;?php", "<?php"); content.replace("?&gt;", "?>")
UnescapePhpAtom(s, i) ==
    CASE s[i] = "&lt;?php" -> "<?php"
      [] s[i] = "?&gt;" -> "?>"
      [] s[i] = "&gt;" /\ i > 1 /\ s[i - 1] = "?" -> ">"
      [] OTHER -> s[i]

\* _cleanup_php_output(content)
CleanupPhpOutput(content) ==
    LET kept == RemoveEmptyPhp(content, 1)
    IN  [i \in 1..Len(kept) |-> UnescapePhpAtom(kept, i)]

\* _generate_php_output()
GeneratePhpOutput(h) == PhpHeader \o CleanupPhpOutput(BodyContent(Str(h, 1))) \o PhpFooter

(***************************************************************************)
(* generate_text: the lines of the text report, joined by newlines         *)
(***************************************************************************)
\* "=" * 70 and "-" * 70, each one atom
Banner(c) == <<IF c = "=" THEN "=x70" ELSE "-x70">>

\* the names convert_file is given on the command line
input_file == <<"input", ".html">>
output_file(d) == IF d = Twig THEN <<"output", ".twig">> ELSE <<"output", ".php">>

\* str.upper() on the kinds of asset record
UpperAtom(a) ==
    CASE a = "img" -> "IMG"
      [] a = "css" -> "CSS"
      [] a = "js" -> "JS"
      [] a = "favicon" -> "FAVICON"
      [] a = "source" -> "SOURCE"
      [] a = "video-poster" -> "VIDEO-POSTER"
      [] OTHER -> a

\* the lines of one entry of each log
AssetLines(conv) ==
    << <<"  [", UpperAtom(conv.type), "]">>,
       <<"    Before: ">> \o conv.original,
       <<"    After:  ">> \o conv.converted,
       <<>> >>

BlockLines(d, block) ==
    << IF d = Twig THEN <<"  ", "{%", " ", "block", " ", block.name, " ", "%}">>
       ELSE <<"  get_template_part('", block.name, "')">>,
       <<"    Reason: ">> \o block.reason,
       <<>> >>

LoopLines(d, loop) ==
    << <<"  Element: ">> \o loop.element,
       IF d = Twig
       THEN <<"    ", "{%", " ", "for", " ">> \o loop.item_var \o <<" ", "in", " ">>
               \o loop.items_var \o <<" ", "%}">>
       ELSE <<"    Type: ">> \o loop.loop_type,
       <<>> >>

\* enumerate(self.manual_suggestions) without its start of 1
SuggestionLineFromZero(i, suggestion) == <<"  ", ToString(i - 1), ". ">> \o suggestion

\* f"  {i}. {suggestion}" for i, suggestion in enumerate(self.manual_suggestions, 1)
SuggestionLine(i, suggestion) == <<"  ", ToString(i), ". ">> \o suggestion

WarningLine(warning) == <<"  ! ">> \o warning

RECURSIVE Flatten(_)
Flatten(seqs) == IF seqs = <<>> THEN <<>> ELSE Head(seqs) \o Flatten(Tail(seqs))

\* a section: its banner, then its entries or the line that says there are none
Section(title, entries, none) ==
    <<Banner("-"), <<title>>, Banner("-")>>
       \o (IF entries # <<>> THEN entries ELSE <<<<none>>, <<>>>>)

ReportHead(d, layout) ==
    << Banner("="),
       <<IF d = Twig THEN "HTML TO TWIG CONVERSION REPORT"
         ELSE "HTML TO WORDPRESS CONVERSION REPORT">>,
       Banner("="), <<>>,
       <<"Input:  ">> \o input_file,
       <<"Output: ">> \o output_file(d) >>
       \o (IF d = WordPress THEN <<<<"Theme:  ", theme_name>>>>
           ELSE IF layout # NoLayout THEN <<<<"Layout: ", layout>>>>
           ELSE <<>>)
       \o << <<>> >>

\* generate_text() of ConversionReport and of WordPressConversionReport
GenerateText(d, layout, r) ==
    LET assets == Flatten([i \in 1..Len(r.assets) |-> AssetLines(r.assets[i])])
        blocks == Flatten([i \in 1..Len(r.blocks) |-> BlockLines(d, r.blocks[i])])
        loops == Flatten([i \in 1..Len(r.loops) |-> LoopLines(d, r.loops[i])])
        manual == [i \in 1..Len(r.manual) |-> SuggestionLine(i, r.manual[i])] \o << <<>> >>
        warnings == [i \in 1..Len(r.warnings) |-> WarningLine(r.warnings[i])] \o << <<>> >>
        lines ==
            ReportHead(d, layout)
               \o Section("ASSET CONVERSIONS", assets, "  No asset conversions performed.")
               \o (IF d = Twig
                   THEN Section("BLOCK SUGGESTIONS", blocks, "  No block suggestions.")
                   ELSE Section("TEMPLATE PARTS SUGGESTIONS", blocks,
                                "  No template part suggestions."))
               \o Section("LOOP CONVERSIONS", loops, "  No loop conversions performed.")
               \o Section("MANUAL REVIEW SUGGESTIONS",
                          IF r.manual # <<>> THEN manual ELSE <<>>,
                          "  No manual review needed.")
               \o (IF r.warnings # <<>>
                   THEN <<Banner("-"), <<"WARNINGS">>, Banner("-")>> \o warnings
                   ELSE <<>>)
               \o <<Banner("="), <<"END OF REPORT">>, Banner("=")>>
    IN  Join(lines, <<"\n">>)

(***************************************************************************)
(* Input documents, as the lxml parser hands them to the converter:        *)
(* [document] > html > (head, body).  A document is written as the list    *)
(* of its nodes in document order, each with the number of its parent.     *)
(***************************************************************************)
MaxDots == 2
MaxItems == 3
MaxKids == 4
MaxCalls == 2

MakeSoup(flat) ==
    [i \in 1..Len(flat) |->
        [flat[i] EXCEPT !.kids = SelectSeq(Idx(Len(flat)), LAMBDA j : flat[j].parent = i)]]

Skeleton ==
    <<Element("[document]", 0), Element("html", 1), Element("head", 2), Element("body", 2)>>

HeadNode == 3
BodyNode == 4

\* relative paths: leading dot segments, an optional assets/ segment, a
\* directory and what follows it
Repeated(a, k) == [i \in 1..k |-> a]

DotPrefixes == {<<"./">>} \cup {Repeated("../", k) : k \in 0..MaxDots}

AssetsPrefixes == {<<>>, <<"assets/">>}

Directories ==
    {<<>>, <<"img/">>, <<"images/">>, <<"IMG/">>, <<"css/">>, <<"styles/">>, <<"js/">>,
     <<"scripts/">>, <<"javascript/">>, <<"fonts/">>, <<"lib/">>}

Remainders ==
    {<<>>, <<"logo", ".png">>, <<"main", ".css">>, <<"app", ".min", ".js">>, <<"a", ".woff">>,
     <<"readme">>, <<"logo", ".png", " ">>, <<" ">>}

RelativePaths ==
    {a \o b \o c \o e : a \in DotPrefixes, b \in AssetsPrefixes, c \in Directories,
                        e \in Remainders}

\* absolute, data and already rewritten values, and values with stray
\* whitespace or delimiters
SpecialPaths ==
    { <<"http://", "cdn/", "logo", ".png">>,
      <<"https://", "cdn/", "img/", "logo", ".png">>,
      <<"//", "cdn/", "app", ".js">>,
      <<"data:", "image/png;base64", ",", "abc">>,
      AssetExpr(Twig, <<"images/", "logo", ".png">>),
      AssetExpr(WordPress, <<"images/", "logo", ".png">>),
      <<" ", "../", "img/", "logo", ".png">>,
      <<" ">> \o AssetExpr(Twig, <<"images/", "logo", ".png">>),
      <<" ">> \o AssetExpr(WordPress, <<"images/", "logo", ".png">>),
      <<"img/", "{{", "logo", "}}">>,
      <<"/", "img/", "logo", ".png">> }

\* the paths tried in every path attribute other than img src
CommonPaths ==
    { <<"../", "images/", "logo", ".png">>, <<"../", "css/", "main", ".css">>,
      <<"../", "js/", "app", ".min", ".js">>, <<"logo", ".png">>, <<"readme">>,
      <<"https://", "cdn/", "img/", "logo", ".png">>,
      <<"data:", "image/png;base64", ",", "abc">>,
      AssetExpr(Twig, <<"images/", "logo", ".png">>),
      AssetExpr(WordPress, <<"images/", "logo", ".png">>) }

Srcsets ==
    { <<"../", "img/", "a", ".png", " ", "1x", ",", " ", "../", "img/", "b", ".png", " ", "2x">>,
      <<"img/", "a", ".png", ",", "img/", "b", ".png", " ", " ", "2x", ",">>,
      <<"https://", "cdn/", "a", ".png", " ", "1x", ",", " ", "img/", "b", ".png", " ", "2x">>,
      <<"https://", "cdn/", "a", ".png", " ", "1x", ",", "https://", "cdn/", "b", ".png", " ", "2x">>,
      <<"data:", "image/png;base64", ",", "abc", " ", "1x">>,
      <<"//", "cdn/", "a", ".png">>,
      <<" ", "img/", "a", ".png", " ", "480w">>,
      AssetExpr(Twig, <<"images/", "a", ".png">>) \o <<" ", "2x">>,
      AssetExpr(WordPress, <<"images/", "a", ".png">>) \o <<" ", "2x">> }

InlineStyles ==
    { <<"background:", " ", "url(", "'", "../", "img/", "bg", ".png", "'", ")">>,
      <<"background:", " ", "url(", "img/", "bg", ".png", ")", ";", " ", "color:", " ", "red">>,
      <<"background:", " ", "URL(", "\"", "bg", ".png", "\"", ")">>,
      <<"background:", " ", "url(", "https://", "cdn/", "bg", ".png", ")">>,
      <<"background:", " ", "url(", "'", "data:", "image/png;base64", ",", "abc", "'", ")">>,
      <<"background:", " ", "url(", " ", "img/", "bg", ".png", " ", ")">>,
      <<"color:", " ", "red">>,
      <<"background:", " ", "url(", "a", ".png", ")", ",", " ", "url(", "//", "cdn/", "b", ".png", ")">> }

StyleSheets ==
    { <<"@import", " ", "url(", "'", "../", "css/", "main", ".css", "'", ")", ";">>,
      <<"@import", " ", "url(", "main", ".css", ")", ";", "\n", "body", " ", "{", "}" >>,
      <<"@import", " ", "url(", "https://", "cdn/", "main", ".css", ")", ";">>,
      <<"@import", " ", "url(", "data:", "text/css", ",", "abc", ")", ";">>,
      <<"body", " ", "{", "background:", " ", "url(", "img/", "bg", ".png", ")", "}">>,
      <<>> }

\* one asset element in an otherwise empty page
AssetDoc(kind, value) ==
    MakeSoup(Skeleton \o
        CASE kind = "img.src" -> <<[Element("img", BodyNode) EXCEPT !.src = value]>>
          [] kind = "img.srcset" -> <<[Element("img", BodyNode) EXCEPT !.srcset = value]>>
          [] kind = "sheet.href" ->
                <<[Element("link", HeadNode) EXCEPT !.rel = <<"stylesheet">>, !.href = value]>>
          [] kind = "icon.href" ->
                <<[Element("link", HeadNode) EXCEPT !.rel = <<"shortcut", "icon">>,
                                                     !.href = value]>>
          [] kind = "both.href" ->
                <<[Element("link", HeadNode) EXCEPT !.rel = <<"stylesheet", "icon">>,
                                                     !.href = value]>>
          [] kind = "script.src" -> <<[Element("script", BodyNode) EXCEPT !.src = value]>>
          [] kind = "source.src" ->
                <<Element("video", BodyNode), [Element("source", 5) EXCEPT !.src = value]>>
          [] kind = "source.srcset" ->
                <<Element("picture", BodyNode), [Element("source", 5) EXCEPT !.srcset = value],
                  [Element("img", 5) EXCEPT !.src = <<"img/", "a", ".png">>]>>
          [] kind = "video.poster" -> <<[Element("video", BodyNode) EXCEPT !.poster = value]>>
          [] kind = "div.style" -> <<[Element("div", BodyNode) EXCEPT !.style = value]>>
          [] kind = "style.text" -> <<Element("style", HeadNode), TextNode(5, value)>>)

PathKinds == {"sheet.href", "icon.href", "both.href", "script.src", "source.src", "video.poster"}

\* a page with one of each, as in test_report_tracks_assets
AssetPage ==
    MakeSoup(Skeleton \o
        << [Element("link", HeadNode) EXCEPT !.rel = <<"stylesheet">>,
                                             !.href = <<"../", "css/", "main", ".css">>],
           [Element("img", BodyNode) EXCEPT !.src = <<"../", "images/", "logo", ".png">>,
                                            !.srcset = <<"img/", "a", ".png", " ", "2x">>],
           [Element("img", BodyNode) EXCEPT !.src = <<"https://", "cdn/", "logo", ".png">>],
           [Element("script", BodyNode) EXCEPT !.src = <<"js/", "app", ".min", ".js">>],
           [Element("div", BodyNode) EXCEPT !.style = <<"background:", " ", "url(", "img/", "bg",
                                                        ".png", ")">>] >>)

AssetDocs ==
    {AssetDoc("img.src", p) : p \in RelativePaths \cup SpecialPaths}
    \cup {AssetDoc(k, p) : k \in PathKinds, p \in CommonPaths}
    \cup {AssetDoc(k, v) : k \in {"img.srcset", "source.srcset"}, v \in Srcsets}
    \cup {AssetDoc("div.style", v) : v \in InlineStyles}
    \cup {AssetDoc("style.text", v) : v \in StyleSheets}
    \cup {AssetPage}

\* list items: "a" is li > a > text, "m" is li > a > (span, text),
\* "s" is li > span > text, "t" is li > text
ItemShapes == {"a", "s", "t"}

ItemNodes(shape, parent, base) ==
    LET li == Element("li", parent)
        href == <<"/", "page", ToString(base)>>
        label == <<"Page", ToString(base)>>
    IN  CASE shape = "a" ->
                <<li, [Element("a", base + 1) EXCEPT !.href = href], TextNode(base + 2, label)>>
          [] shape = "m" ->
                <<li, [Element("a", base + 1) EXCEPT !.href = href], Element("span", base + 2),
                  TextNode(base + 2, label)>>
          [] shape = "c" ->
                <<[li EXCEPT !.cls = <<<<"current">>>>],
                  [Element("a", base + 1) EXCEPT !.href = href], Element("b", base + 2),
                  TextNode(base + 3, label)>>
          [] shape = "s" -> <<li, Element("span", base + 1), TextNode(base + 2, label)>>
          [] shape = "t" -> <<li, TextNode(base + 1, label)>>

RECURSIVE AddItems(_, _, _, _)
AddItems(flat, parent, shapes, spaced) ==
    IF shapes = <<>> THEN flat
    ELSE LET gap == IF spaced THEN <<TextNode(parent, <<"\n">>)>> ELSE <<>>
             now == flat \o gap
         IN  AddItems(now \o ItemNodes(Head(shapes), parent, Len(now)), parent, Tail(shapes),
                      spaced)

ItemLists == UNION {[1..k -> ItemShapes] : k \in 0..MaxItems}

\* the element(s) around the list: the last node of a wrapper is the list
Wrappers == {"nav>ul", "nav>ul.menu", "ul.nav", "nav.navigation>ul", "nav>ol",
             "div.main-menu>ul.navbar-nav", "div.navigation"}

WrapperNodes(w) ==
    CASE w = "nav>ul" -> <<Element("nav", BodyNode), Element("ul", 5)>>
      [] w = "nav>ul.menu" ->
            <<Element("nav", BodyNode), [Element("ul", 5) EXCEPT !.cls = <<<<"menu">>>>]>>
      [] w = "ul.nav" -> <<[Element("ul", BodyNode) EXCEPT !.cls = <<<<"nav">>, <<"top">>>>]>>
      [] w = "nav.navigation>ul" ->
            <<[Element("nav", BodyNode) EXCEPT !.cls = <<<<"navigation">>>>],
              Element("ul", 5)>>
      [] w = "nav>ol" -> <<Element("nav", BodyNode), Element("ol", 5)>>
      [] w = "div.main-menu>ul.navbar-nav" ->
            <<[Element("div", BodyNode) EXCEPT !.cls = <<<<"main", "-", "menu">>>>],
              [Element("ul", 5) EXCEPT !.cls = <<<<"navbar", "-", "nav">>>>]>>
      [] w = "div.navigation" ->
            <<[Element("div", BodyNode) EXCEPT !.cls = <<<<"navigation">>>>]>>

NavDoc(w, shapes, spaced) ==
    LET top == Skeleton \o WrapperNodes(w)
    IN  MakeSoup(AddItems(top, Len(top), shapes, spaced))

\* how the nav element of a "nav>ul" page is named
NavNamings ==
    { [id |-> <<"main", "-", "nav">>, cls |-> <<>>, aria |-> <<>>],
      [id |-> <<>>, cls |-> <<<<"dark">>, <<"site", "_", "Menu">>>>, aria |-> <<>>],
      [id |-> <<>>, cls |-> <<<<"dark">>>>, aria |-> <<"Top", " ", "Links">>],
      [id |-> <<"top">>, cls |-> <<<<"main", "-", "menu">>>>, aria |-> <<"Top", " ", "Links">>],
      [id |-> <<>>, cls |-> <<<<"dark">>, <<"site", "_", "Menu">>>>,
       aria |-> <<"Top", " ", "Links">>],
      [id |-> <<>>, cls |-> <<>>, aria |-> <<"Top", "-", "Links">>] }

NamedNavDoc(naming, shapes) ==
    LET nav == [Element("nav", BodyNode) EXCEPT !.id = naming.id, !.cls = naming.cls,
                                                !.aria = naming.aria]
        top == Skeleton \o <<nav, [Element("ul", 5) EXCEPT !.cls = <<<<"links">>>>]>>
    IN  MakeSoup(AddItems(top, Len(top), shapes, TRUE))

\* a menu with a submenu in its second item, both lists matched by ul.menu
NestedNavDoc ==
    MakeSoup(Skeleton \o
        << Element("div", BodyNode),
           [Element("ul", 5) EXCEPT !.cls = <<<<"menu">>>>],
           Element("li", 6), [Element("a", 7) EXCEPT !.href = <<"/">>], TextNode(8, <<"Home">>),
           Element("li", 6), [Element("a", 10) EXCEPT !.href = <<"/", "more">>],
           TextNode(11, <<"More">>),
           [Element("ul", 10) EXCEPT !.cls = <<<<"menu">>>>],
           Element("li", 13), [Element("a", 14) EXCEPT !.href = <<"/", "a">>],
           TextNode(15, <<"A">>),
           Element("li", 13), [Element("a", 17) EXCEPT !.href = <<"/", "b">>],
           TextNode(18, <<"B">>) >>)

\* a menu whose three items each hold a panel of three links; the panel of
\* the second item is the sidebar of the page, and the first item has a
\* text after its panel
PanelNavDoc ==
    LET panel(li, sidebar) ==
            << Element("li", 6),
               [Element("div", li) EXCEPT !.id = IF sidebar THEN <<"sidebar">> ELSE <<>>,
                                          !.cls = <<<<"panel">>>>],
               [Element("a", li + 1) EXCEPT !.href = <<"/", "one">>],
               [Element("a", li + 1) EXCEPT !.href = <<"/", "two">>],
               [Element("a", li + 1) EXCEPT !.href = <<"/", "three">>] >>
    IN  MakeSoup(Skeleton \o
            << Element("nav", BodyNode), [Element("ul", 5) EXCEPT !.cls = <<<<"menu">>>>] >>
            \o panel(7, FALSE) \o <<TextNode(7, <<"Page", "1">>)>>
            \o panel(13, TRUE) \o panel(18, FALSE))

NavDocs ==
    {NavDoc(w, shapes, FALSE) : w \in Wrappers, shapes \in ItemLists}
    \cup {NavDoc("nav>ul.menu", shapes, TRUE) : shapes \in ItemLists}
    \cup {NavDoc("nav>ul", shapes, TRUE) :
            shapes \in {<<"m", "m">>, <<"c", "c", "c">>, <<"c", "a", "a">>, <<"a", "m", "t">>}}
    \cup {NamedNavDoc(naming, <<"a", "a", "a">>) : naming \in NavNamings}
    \cup {NestedNavDoc, PanelNavDoc}

\* containers of repeated children: "c" is div.card > (h3, p), "p" is
\* div > p, "r" is article.post > h2
KidShapes == {"c", "p"}

KidNodes(shape, parent, base) ==
    CASE shape = "c" ->
            <<[Element("div", parent) EXCEPT !.cls = <<<<"card">>>>], Element("h3", base + 1),
              TextNode(base + 2, <<"Card">>), Element("p", base + 1)>>
      [] shape = "p" -> <<Element("div", parent), Element("p", base + 1)>>
      [] shape = "r" ->
            <<[Element("article", parent) EXCEPT !.cls = <<<<"blog", "-", "post">>>>],
              Element("h2", base + 1)>>
      [] shape = "q" ->
            <<[Element("div", parent) EXCEPT !.cls = <<<<"entry">>, <<"Post">>>>],
              Element("h2", base + 1)>>

RECURSIVE AddKids(_, _, _)
AddKids(flat, parent, shapes) ==
    IF shapes = <<>> THEN flat
    ELSE LET now == flat \o <<TextNode(parent, <<"\n">>)>>
         IN  AddKids(now \o KidNodes(Head(shapes), parent, Len(now)), parent, Tail(shapes))

KidLists == UNION {[1..k -> KidShapes] : k \in 0..MaxKids}

Containers ==
    { [Element("div", BodyNode) EXCEPT !.cls = <<<<"cards">>, <<"grid">>>>],
      [Element("section", BodyNode) EXCEPT !.id = <<"features">>, !.cls = <<<<"cards">>>>],
      Element("article", BodyNode) }

CardDoc(container, shapes) ==
    LET top == Skeleton \o <<container>>
    IN  MakeSoup(AddKids(top, Len(top), shapes))

CardDocs ==
    {CardDoc(c, shapes) : c \in Containers, shapes \in KidLists}
    \cup {CardDoc(c, shapes) : c \in Containers,
            shapes \in {<<"r", "r", "r">>, <<"q", "q", "q">>, <<"c", "r", "r">>, <<"r", "p", "r", "r">>}}

\* pages with structural regions: how the header and the sidebar appear
HeaderChoices ==
    { <<>>,
      <<Element("header", BodyNode)>>,
      <<[Element("div", BodyNode) EXCEPT !.cls = <<<<"top">>, <<"header">>>>]>>,
      <<[Element("div", BodyNode) EXCEPT !.id = <<"header">>]>>,
      <<[Element("div", BodyNode) EXCEPT !.role = "banner"]>>,
      <<[Element("header", BodyNode) EXCEPT !.cls = <<<<"header">>>>, !.role = "banner"]>>,
      <<[Element("div", BodyNode) EXCEPT !.id = <<"header">>], Element("header", BodyNode)>> }

SidebarChoices ==
    { <<>>,
      <<[Element("aside", BodyNode) EXCEPT !.cls = <<<<"sidebar">>>>]>>,
      <<Element("aside", BodyNode)>>,
      <<[Element("div", BodyNode) EXCEPT !.id = <<"sidebar">>]>>,
      <<Element("aside", BodyNode), [Element("div", BodyNode) EXCEPT !.role = "complementary"]>> }

FooterChoices == {<<>>, <<Element("footer", BodyNode)>>}

ContentChoices ==
    { <<>>,
      <<[Element("div", BodyNode) EXCEPT !.cls = <<<<"main", "-", "content">>>>,
                                        !.role = "main"]>> }

TitleChoices == {<<>>, <<Element("title", HeadNode), TextNode(5, <<"Page">>)>>}

RegionDocs ==
    {MakeSoup(Skeleton \o t \o a \o b \o c \o e) :
        t \in TitleChoices, a \in HeaderChoices, b \in SidebarChoices, c \in FooterChoices,
        e \in ContentChoices}

\* pages for the layout wrapping: a title, a stylesheet link, the element
\* around the content and where the script of the page stands
SheetChoices ==
    { <<>>,
      <<[Element("link", HeadNode) EXCEPT !.rel = <<"stylesheet">>,
                                           !.href = <<"css/", "main", ".css">>]>> }

ContentElements ==
    { Element("div", BodyNode), Element("main", BodyNode),
      [Element("div", BodyNode) EXCEPT !.cls = <<<<"page", "-", "content">>>>] }

ScriptPlaces == {"none", "inside", "outside"}

LayoutDoc(title, sheet, content, place) ==
    LET top == Skeleton \o title \o sheet
        at == Len(top) + 1
        script(p) == [Element("script", p) EXCEPT !.src = <<"js/", "app", ".js">>]
        inner == <<content, Element("p", at), TextNode(at + 1, <<"Page">>)>>
    IN  MakeSoup(top \o inner \o
            CASE place = "none" -> <<>>
              [] place = "inside" -> <<script(at)>>
              [] place = "outside" ->
                    <<TextNode(BodyNode, <<"\n", "\n", "\n">>), script(BodyNode)>>)

LayoutDocs ==
    {LayoutDoc(t, s, c, p) : t \in TitleChoices, s \in SheetChoices, c \in ContentElements,
                             p \in ScriptPlaces}

\* a fragment with no head element
BareDoc == MakeSoup(<<Element("[document]", 0), Element("html", 1), Element("body", 2),
                      Element("p", 3)>>)

Documents ==
    AssetDocs \cup NavDocs \cup CardDocs \cup RegionDocs \cup LayoutDocs \cup {BareDoc}

\* the documents handed to convert() directly, as the test suite does
ApiDocuments ==
    { AssetPage, NavDoc("nav>ul", <<"a", "a", "a">>, TRUE),
      CardDoc(Element("div", BodyNode), <<"c", "c", "c", "c">>),
      MakeSoup(Skeleton \o <<Element("header", BodyNode), Element("footer", BodyNode)>>),
      BareDoc }

(***************************************************************************)
(* The file a conversion wrote, read back and parsed.  str(soup) writes    *)
(* the class tokens joined by spaces and the parser splits them again;     *)
(* the WordPress converter writes the content of <body> only, so the       *)
(* children of <head> are not in the file.  Attribute values come back as  *)
(* they were: the formatter escapes "<" and ">" and _cleanup_php_output    *)
(* restores the PHP delimiters.                                            *)
(***************************************************************************)
ParseOutput(d, h) ==
    LET heads == FindAllTags(h, 1, {"head"})
        h1 == [n \in 1..Len(h) |-> [h[n] EXCEPT !.cls = SplitWhite(Join(@, <<" ">>))]]
    IN  IF d = WordPress /\ heads # <<>> THEN [h1 EXCEPT ![Head(heads)].kids = <<>>]
        ELSE h1

(***************************************************************************)
(* The converter object and the position of the conversion in progress     *)
(***************************************************************************)
VARIABLES
    dialect,    \* which converter class the object is
    layout,     \* self.layout of the Twig converter; NoLayout for None
    soup,       \* self.soup
    report,     \* self.report
    pc,         \* where convert_file() / convert() stands
    selector,   \* index in NAV_SELECTORS of the selector being handled
    navs,       \* elements of the current selector still to be handled
    calls,      \* conversions started on this converter
    made,       \* report objects created so far
    input,      \* the tree the current conversion started from
    entry,      \* the method the caller entered the conversion by
    output,     \* the text convert() returned
    text,       \* the text generate_text() returned
    functions_php   \* the text generate_functions_php() returned

vars == <<dialect, layout, soup, report, pc, selector, navs, calls, made, input, entry,
          output, text, failing, functions_php>>

Resting == {"idle", "done", "raised"}

Layouts(d) == IF d = Twig THEN {NoLayout, "base"} ELSE {NoLayout}

Init ==
    /\ dialect \in Dialects
    /\ layout \in Layouts(dialect)
    /\ soup = <<>>
    /\ report = NoReport
    /\ pc = "idle"
    /\ selector = 1
    /\ navs = <<>>
    /\ calls = 0
    /\ made = 0
    /\ input = <<>>
    /\ entry = ""
    /\ output = <<>>
    /\ text = <<>>
    /\ failing = {}
    /\ functions_php = <<>>

\* the documents a call can be given: any document first, then the file
\* the previous conversion wrote (a template wrapped in a layout is not
\* given back to the converter)
Inputs(first) ==
    IF calls = 0 THEN first
    ELSE IF layout = NoLayout THEN {ParseOutput(dialect, soup)}
    ELSE {}

\* self.soup = BeautifulSoup(html_content, "lxml")
Parse(doc) ==
    /\ soup' = doc
    /\ input' = doc
    /\ pc' = "images"
    /\ selector' = 1
    /\ navs' = <<>>
    /\ calls' = calls + 1
    /\ output' = <<>>
    /\ text' = <<>>
    /\ functions_php' = <<>>

\* convert_file(input_path, output_path): a new report, then convert()
ConvertFile ==
    /\ pc \in Resting
    /\ calls < MaxCalls
    /\ \E doc \in Inputs(Documents) : Parse(doc)
    /\ made' = made + 1
    /\ report' = NewReport(made + 1)
    /\ entry' = "convert_file"
    /\ UNCHANGED <<failing, dialect, layout>>

\* convert(html_content) called by the user of the class: self.report stays
Convert ==
    /\ pc \in Resting
    /\ calls < MaxCalls
    /\ \E doc \in Inputs(ApiDocuments) : Parse(doc)
    /\ entry' = "convert"
    /\ UNCHANGED <<failing, dialect, layout, report, made>>

Now == [soup |-> soup, report |-> report, raised |-> FALSE]

\* one method call of convert(): an AttributeError leaves convert()
Step(from, st, to) ==
    /\ pc = from
    /\ soup' = st.soup
    /\ report' = st.report
    /\ pc' = IF st.raised THEN "raised" ELSE to
    /\ UNCHANGED <<functions_php, failing, dialect, layout, selector, navs, calls, made, input, entry, output, text>>

ConvertImages == Step("images", ConvertImagesPass(dialect, Now), "stylesheets")

ConvertStylesheets == Step("stylesheets", ConvertStylesheetsPass(dialect, Now), "scripts")

ConvertScripts == Step("scripts", ConvertScriptsPass(dialect, Now), "other")

ConvertOtherAssets == Step("other", ConvertOtherAssetsPass(dialect, Now), "navigation")

\* the selector that stays where it is
SameSelector(s) == s

\* for selector in NAV_SELECTORS: the next selector of the list
NextSelector(s) == s + 1

\* for selector in NAV_SELECTORS: navs = self.soup.select(selector); the
\* loop has no except clause, so a query that raises leaves convert()
NavSelect ==
    /\ pc = "navigation"
    /\ navs = <<>>
    /\ IF selector > Len(NAV_SELECTORS)
       THEN /\ pc' = "blocks"
            /\ UNCHANGED <<navs, selector>>
       ELSE IF NAV_SELECTORS[selector].label \in failing
       THEN /\ pc' = "raised"
            /\ UNCHANGED <<navs, selector>>
       ELSE /\ navs' = Select(soup, NAV_SELECTORS[selector])
            /\ selector' = NextSelector(selector)
            /\ pc' = pc
    /\ UNCHANGED <<functions_php, failing, dialect, layout, soup, report, calls, made, input, entry, output, text>>

\* for nav in navs: self._convert_nav_element(nav)
NavElement ==
    /\ pc = "navigation"
    /\ navs # <<>>
    /\ LET st == ConvertNavElement(dialect, Now, Head(navs))
       IN  /\ soup' = st.soup
           /\ report' = st.report
           /\ pc' = IF st.raised THEN "raised" ELSE pc
    /\ navs' = Tail(navs)
    /\ UNCHANGED <<functions_php, failing, dialect, layout, selector, calls, made, input, entry, output, text>>

DetectBlocks == Step("blocks", DetectBlocksPass(dialect, Now), "repeat")

DetectRepetitive == Step("repeat", DetectRepetitivePass(dialect, Now), "output")

\* _generate_twig_output / _generate_php_output and the return of convert()
GenerateOutput ==
    /\ pc = "output"
    /\ output' = IF dialect = Twig THEN GenerateTwigOutput(layout, soup)
                 ELSE GeneratePhpOutput(soup)
    /\ pc' = IF entry = "convert_file" THEN "report" ELSE "done"
    /\ UNCHANGED <<functions_php, failing, dialect, layout, soup, report, selector, navs, calls, made, input, entry,
                   text>>

\* convert_file after convert(): f.write(self.report.generate_text())
WriteReport ==
    /\ pc = "report"
    /\ text' = GenerateText(dialect, layout, report)
    /\ pc' = "done"
    /\ UNCHANGED <<functions_php, failing, dialect, layout, soup, report, selector, navs, calls, made, input, entry,
                   output>>

Pipeline ==
    \/ ConvertImages
    \/ ConvertStylesheets
    \/ ConvertScripts
    \/ ConvertOtherAssets
    \/ NavSelect
    \/ NavElement
    \/ DetectBlocks
    \/ DetectRepetitive
    \/ GenerateOutput
    \/ WriteReport

Next == ConvertFile \/ Pipeline

NextApi == ConvertFile \/ Convert \/ Pipeline

\* conversions entered through convert_file, as the command line does
Spec == Init /\ [][Next]_vars

\* conversions entered through convert_file or convert
SpecApi == Init /\ [][NextApi]_vars

\* convert() is one sequential call: once entered, each of its steps is taken
SpecLive == Spec /\ WF_vars(Pipeline)

\* the line of generate_functions_php for one menu
MenuRegistration(menu_location, menu_name) ==
    Pad8 \o <<"'">> \o menu_location \o <<"'", " ", "=", ">", " ", "__('">> \o menu_name
         \o <<"', '", theme_name, "'),">>

\* the menus of generate_functions_php: one line for each loop record of
\* type "wp_nav_menu()", the name being the element without its prefix
MenuLines(loops) ==
    LET menus == SelectSeq(loops, LAMBDA loop : loop.loop_type = <<"wp_nav_menu()">>)
    IN  [i \in 1..Len(menus) |->
            LET menu_name == SelectSeq(menus[i].element, LAMBDA a : a # "Navigation menu: ")
            IN  MenuRegistration(Replace(Lower(menu_name), " ", "_"), menu_name)]

\* generate_functions_php()
FunctionsPhp(r) ==
    LET menu_registration ==
            IF MenuLines(r.loops) # <<>> THEN Join(MenuLines(r.loops), <<"\n">>)
            ELSE MenuRegistration(<<"primary">>, <<"Primary", " ", "Menu">>)
        setup == LowerAtom(theme_name)
    IN  <<"<?php", "\n", "/**", "\n", " * ", theme_name, " functions and definitions", "\n",
          " *", "\n", " * @package ", theme_name, "\n", " */", "\n", "\n",
          "if (!defined('ABSPATH')) {", "\n", "    exit;", "\n", "}", "\n", "\n",
          "function ", setup, "_setup() {", "\n",
          "    add_theme_support(...);", "\n", "\n",
          "    register_nav_menus(array(", "\n">>
        \o menu_registration
        \o <<"\n", "    ));", "\n", "}", "\n",
             "add_action('after_setup_theme', '", setup, "_setup');", "\n", "\n",
             "function ", setup, "_scripts() {", "\n",
             "    wp_enqueue_style('", setup, "-style', get_stylesheet_uri(), array(), '1.0.0');",
             "\n", "}", "\n",
             "add_action('wp_enqueue_scripts', '", setup, "_scripts');", "\n">>

\* functions = converter.generate_functions_php(), called by the user of
\* the class once the page is converted
GenerateFunctionsPhp ==
    /\ pc = "done"
    /\ dialect = WordPress
    /\ report.instance # 0
    /\ functions_php = <<>>
    /\ functions_php' = FunctionsPhp(report)
    /\ UNCHANGED <<failing, dialect, layout, soup, report, pc, selector, navs, calls, made,
                   input, entry, output, text>>

NextTheme == ConvertFile \/ Pipeline \/ GenerateFunctionsPhp

\* conversions whose caller also asks for the functions.php of the theme
SpecTheme == Init /\ [][NextTheme]_vars

\* soup.select(selector) raises for a selector soupsieve cannot compile (the
\* tables are class attributes a subclass may replace) and for every
\* selector when soupsieve is not installed: the sets of selectors whose
\* query raises
AllSelectors ==
    {NAV_SELECTORS[i].label : i \in 1..Len(NAV_SELECTORS)}
    \cup UNION {{BLOCK_PATTERNS[r].selectors[k].label : k \in 1..Len(BLOCK_PATTERNS[r].selectors)} :
                   r \in 1..Len(BLOCK_PATTERNS)}

Faults == { {"header"}, {".sidebar", "#sidebar"}, {"ul.menu"}, AllSelectors }

\* the converter is one whose queries raise for some selectors
Break ==
    /\ pc = "idle"
    /\ calls = 0
    /\ failing = {}
    /\ failing' \in Faults
    /\ UNCHANGED <<dialect, layout, soup, report, pc, selector, navs, calls, made, input, entry,
                   output, text, functions_php>>

NextFaulty == Break \/ ConvertFile \/ Pipeline

\* conversions by a converter some of whose selector queries raise
SpecFaulty == Init /\ [][NextFaulty]_vars

(***************************************************************************)
(* The report object used on its own, as the test suite does: the caller   *)
(* constructs it, appends to its logs and renders it once.                 *)
(***************************************************************************)
MaxLog == 2

ReportAssets(d) ==
    { AssetRecord(<<"../", "img/", "logo", ".png">>, AssetExpr(d, <<"images/", "logo", ".png">>),
                  "img"),
      AssetRecord(<<"main", ".css">>, AssetExpr(d, <<"css/", "main", ".css">>), "css") }

ReportSuggestions(d) ==
    {<<"Review navigation structure">>, NavSuggestion(d, <<"Main", " ", "Menu">>)}

ReportWarnings == {<<"Check the encoding">>}

Standalone == pc = "idle" /\ calls = 0 /\ text = <<>>

Appending(log) == Standalone /\ report.instance # 0 /\ Len(report[log]) < MaxLog

Keeping == UNCHANGED <<functions_php, failing, dialect, layout, soup, pc, selector, navs, calls, made, input, entry,
                       output, text>>

\* report = ConversionReport(input_file=..., output_file=..., layout=...)
MakeReport ==
    /\ Standalone
    /\ made = 0
    /\ made' = 1
    /\ report' = NewReport(1)
    /\ UNCHANGED <<functions_php, failing, dialect, layout, soup, pc, selector, navs, calls, input, entry, output,
                   text>>

\* report.add_asset(original, converted, tag_type)
AddAsset ==
    /\ Appending("assets")
    /\ \E conv \in ReportAssets(dialect) : report' = [report EXCEPT !.assets = Append(@, conv)]
    /\ Keeping

\* report.add_block(name, reason) / report.add_template_part(name, reason)
AddBlock ==
    /\ Appending("blocks")
    /\ \E sel \in {Head(HeaderSelectors), Head(FooterSelectors)} :
          report' = [report EXCEPT !.blocks = Append(@, BlockRecord(sel.label, sel))]
    /\ Keeping

\* report.add_loop(...)
AddLoop ==
    /\ Appending("loops")
    /\ report' = [report EXCEPT !.loops = Append(@, NavLoopRecord(dialect, <<"menu">>))]
    /\ Keeping

\* report.add_suggestion(suggestion)
AddSuggestion ==
    /\ Appending("manual")
    /\ \E s \in ReportSuggestions(dialect) : report' = [report EXCEPT !.manual = Append(@, s)]
    /\ Keeping

\* report.add_warning(warning)
AddWarning ==
    /\ Appending("warnings")
    /\ \E w \in ReportWarnings : report' = [report EXCEPT !.warnings = Append(@, w)]
    /\ Keeping

\* text = report.generate_text()
RenderReport ==
    /\ Standalone
    /\ report.instance # 0
    /\ text' = GenerateText(dialect, layout, report)
    /\ UNCHANGED <<functions_php, failing, dialect, layout, soup, report, pc, selector, navs, calls, made, input,
                   entry, output>>

NextReport ==
    MakeReport \/ AddAsset \/ AddBlock \/ AddLoop \/ AddSuggestion \/ AddWarning \/ RenderReport

\* a report built and rendered by its caller
SpecReport == Init /\ [][NextReport]_vars

(***************************************************************************)
(* What the properties below read off a state                              *)
(***************************************************************************)
Range(seq) == {seq[i] : i \in 1..Len(seq)}

RECURSIVE Sum(_, _)
Sum(f, k) == IF k = 0 THEN 0 ELSE f[k] + Sum(f, k - 1)

\* the attributes that hold one path, on the elements the asset passes visit
PathAttributes == {"src", "href", "poster"}
AssetTags == {"img", "link", "script", "source", "video"}

ExternalPrefixes == {<<"http://">>, <<"https://">>, <<"//">>, <<"data:">>}
IsExternalUrl(u) == StartsWithAny(u, ExternalPrefixes)

RECURSIVE StripCommas(_)
StripCommas(t) ==
    IF t # <<>> /\ Head(t) = "," THEN StripCommas(Tail(t))
    ELSE IF t # <<>> /\ t[Len(t)] = "," THEN StripCommas(SubSeq(t, 1, Len(t) - 1))
    ELSE t

\* the candidate URLs of a srcset value as HTML reads it: a URL is a run of
\* non-whitespace characters without its leading and trailing commas; what
\* follows it up to the next comma is its descriptor
RECURSIVE CandidateUrls(_, _)
CandidateUrls(tokens, in_descriptor) ==
    IF tokens = <<>> THEN <<>>
    ELSE LET t == Head(tokens)
             commas == {i \in 1..Len(t) : t[i] = ","}
             k == CHOOSE i \in commas : \A j \in commas : i <= j
             url == StripCommas(t)
         IN  IF in_descriptor
             THEN IF commas = {} THEN CandidateUrls(Tail(tokens), TRUE)
                  ELSE IF k = Len(t) THEN CandidateUrls(Tail(tokens), FALSE)
                  ELSE CandidateUrls(<<SubSeq(t, k + 1, Len(t))>> \o Tail(tokens), FALSE)
             ELSE IF url = <<>> THEN CandidateUrls(Tail(tokens), FALSE)
             ELSE <<url>> \o CandidateUrls(Tail(tokens), t[Len(t)] # ",")

SrcsetUrls(srcset) == CandidateUrls(SplitWhite(srcset), FALSE)

\* the values of the url(...) references of a style text, in order
StyleUrls(style) ==
    LET at == SelectSeq(Idx(Len(style)), LAMBDA i : UrlMatchAt(style, i).ok)
    IN  [i \in 1..Len(at) |-> UrlMatchAt(style, at[i]).url]

\* the values of the @import url(...) references of a style sheet, in order
ImportUrls(css) ==
    LET at == SelectSeq(Idx(Len(css)), LAMBDA i : ImportMatchAt(css, i).ok)
    IN  [i \in 1..Len(at) |-> ImportMatchAt(css, at[i]).url]

\* the text of a <style> element
StyleText(h, n) ==
    IF h[n].tag = "style" /\ StringNode(h, n) # 0 THEN h[StringNode(h, n)].text ELSE <<>>

\* how many of the values in before are no longer among those in after
Lost(before, after) == Cardinality({i \in 1..Len(before) : before[i] \notin Range(after)})

\* the number of path and URL values of node n the conversion has changed
ChangedValues(n) ==
    (IF input[n].tag \in AssetTags
     THEN Cardinality({a \in PathAttributes : soup[n][a] # input[n][a]})
          + Lost(SrcsetUrls(input[n].srcset), SrcsetUrls(soup[n].srcset))
     ELSE 0)
    + Lost(StyleUrls(input[n].style), StyleUrls(soup[n].style))
    + Lost(ImportUrls(StyleText(input, n)), ImportUrls(StyleText(soup, n)))

\* C1: every conversion, however it is started, works on a report object
\* that was created at the start of that very call: the converter holds a
\* report while it converts, and the number of reports created equals the
\* number of conversions started, so no two conversions share one.
C1_ReportPerCall == calls > 0 => (report.instance # 0 /\ report.instance = calls /\ made = calls)

\* C2: a src, href or poster value, a srcset candidate URL and an inline
\* style url() value that is an http://, https://, // or data: URL is in the
\* converted tree exactly as it was in the input.
C2_ExternalUntouched ==
    \A n \in 1..Len(input) :
        /\ input[n].tag \in AssetTags =>
              /\ \A a \in PathAttributes :
                    IsExternalUrl(input[n][a]) => soup[n][a] = input[n][a]
              /\ \A u \in Range(SrcsetUrls(input[n].srcset)) :
                    IsExternalUrl(u) => u \in Range(SrcsetUrls(soup[n].srcset))
        /\ \A u \in Range(StyleUrls(input[n].style)) :
              IsExternalUrl(u) => u \in Range(StyleUrls(soup[n].style))

\* C3: the report holds one asset record for each path or URL value the
\* conversion has changed, whatever the context (src, href, poster, srcset
\* candidate, inline style url(), <style> @import).
C3_RecordPerRewrite ==
    Len(report.assets) = Sum([n \in 1..Len(input) |-> ChangedValues(n)], Len(input))

\* the category directory aliases and their canonical directory
CategoryOf ==
    [c \in {"img/", "images/", "css/", "styles/", "js/", "scripts/", "javascript/", "fonts/"} |->
        CASE c \in {"img/", "images/"} -> "images/"
          [] c \in {"css/", "styles/"} -> "css/"
          [] c \in {"js/", "scripts/", "javascript/"} -> "js/"
          [] c = "fonts/" -> "fonts/"]

\* the images of the document whose path is leading ./ or ../ segments, an
\* optional assets/ segment, a category directory and a remainder, as
\* [node, dir, remainder]
ShapedImages ==
    {x \in [node : 1..Len(input), dir : DOMAIN CategoryOf, remainder : Remainders] :
        /\ input[x.node].tag = "img"
        /\ \E a \in DotPrefixes, b \in AssetsPrefixes :
              input[x.node].src = a \o b \o <<x.dir>> \o x.remainder}

ImagesDone == calls > 0 /\ pc # "images"

Classified ==
    {x \in [node : 1..Len(input), attr : PathAttributes] :
        /\ input[x.node].tag \in
              (IF dialect = Twig THEN AssetTags ELSE {"img", "link", "script"})
        /\ input[x.node].tag = "link" =>
              Range(input[x.node].rel) \cap ({"stylesheet"} \cup IconRelTokens) # {}
        /\ x.attr = (CASE input[x.node].tag = "link" -> "href"
                       [] input[x.node].tag = "video" -> "poster"
                       [] OTHER -> "src")}

AssetsDone == calls > 0 /\ pc \notin {"images", "stylesheets", "scripts", "other"}

\* C5: the classifier is idempotent in both dialects: once the asset passes
\* are over, every path attribute holds classify(p) for its input p, and
\* classifying that value again returns it unchanged.
C5_Idempotent ==
    AssetsDone =>
        \A x \in Classified :
            LET once == ConvertAssetPath(dialect, input[x.node][x.attr])
            IN  /\ soup[x.node][x.attr] = once
                /\ ConvertAssetPath(dialect, once) = once

\* a relative path has been rewritten, so that classifying the value in the
\* tree is classifying an asset expression
C5_Witness ==
    /\ AssetsDone
    /\ \E x \in Classified :
          /\ soup[x.node][x.attr] # input[x.node][x.attr]
          /\ StartsWith(soup[x.node][x.attr], Delimiter(dialect))

\* the path and URL attribute values of node n, and its <style> text
AssetValues(h, n) ==
    <<IF h[n].tag \in AssetTags THEN <<h[n].src, h[n].href, h[n].poster, h[n].srcset>>
      ELSE <<>>,
      h[n].style, StyleText(h, n)>>

\* C6: a second conversion, run on the output of the first, changes no
\* asset attribute and records no asset conversion.
C6_SecondRunInert ==
    calls >= 2 =>
        /\ report.assets = <<>>
        /\ \A n \in 1..Len(input) : AssetValues(soup, n) = AssetValues(input, n)

\* a nav with one <ul> whose k >= 2 items are all li > a
UniformMenu(h) ==
    LET found == FindAllTags(h, 1, {"nav"})
        lists == FindAllTags(h, Head(found), {"ul"})
        items == FindAllTags(h, Head(found), {"li"})
    IN  /\ Len(found) = 1
        /\ Len(lists) = 1
        /\ Len(items) >= 2
        /\ \A i \in 1..Len(items) :
              /\ h[items[i]].parent = Head(lists)
              /\ Len(ElementKids(h, items[i])) = 1
              /\ h[Head(ElementKids(h, items[i]))].tag = "a"

IsLoopOpen(node) == node.tag = "#text" /\ StartsWith(node.text, <<"{%", " ", "for", " ">>)
IsLoopClose(node) == node.tag = "#text" /\ EndsWith(node.text, <<"{%", " ", "endfor", " ", "%}">>)

NavigationDone == calls > 0 /\ pc \in {"blocks", "repeat", "output", "report", "done"}

\* C7: dialect A, a nav with one <ul> of k >= 2 identical li > a items:
\* after navigation rewriting the tree holds exactly one li, with the only
\* loop-open marker as its previous sibling and the only loop-close marker
\* as its next sibling, and the report has exactly one loop record, also
\* when the nav and its ul are both matched by navigation selectors.
C7_OneLoopAroundOneItem ==
    (NavigationDone /\ dialect = Twig /\ UniformMenu(input)) =>
        LET items == FindAllTags(soup, 1, {"li"})
            inTree == Range(Descendants(soup, 1))
            opens == {n \in inTree : IsLoopOpen(soup[n])}
            closes == {n \in inTree : IsLoopClose(soup[n])}
            around == soup[soup[Head(items)].parent].kids
            at == IndexOf(around, Head(items))
        IN  /\ Len(items) = 1
            /\ Cardinality(opens) = 1
            /\ Cardinality(closes) = 1
            /\ at > 1 /\ around[at - 1] \in opens
            /\ at < Len(around) /\ around[at + 1] \in closes
            /\ Len(report.loops) = 1

\* such a menu whose <ul> is matched by a selector too has been converted
C7_Witness ==
    /\ pc = "done"
    /\ dialect = Twig
    /\ UniformMenu(input)
    /\ Select(input, NAV_SELECTORS[3]) # <<>>
    /\ Len(FindAllTags(input, 1, {"li"})) = 3
    /\ Len(FindAllTags(soup, 1, {"li"})) = 1
    /\ Len(report.loops) = 1

\* the step that handles one matched navigation element
AtNavElement == pc = "navigation" /\ navs # <<>>
NavItems == FindAllTags(soup, Head(navs), {"li"})
HasList == soup[Head(navs)].tag = "ul" \/ FindAllTags(soup, Head(navs), {"ul"}) # <<>>
Untouched == soup' = soup /\ report' = report
RewrittenAsMenu ==
    /\ soup' # soup
    /\ Len(report'.loops) = Len(report.loops) + 1
    /\ Len(report'.manual) = Len(report.manual) + 1
    /\ report'.assets = report.assets
    /\ report'.blocks = report.blocks

\* C8 as stated: with n list items below the element and c of items[1:]
\* similar to items[0], the element is left untouched when n < 2 or
\* c < n div 2, and rewritten with one loop record and one suggestion when
\* n >= 2 and c >= n div 2.
C8_Threshold ==
    [][AtNavElement =>
        LET n == Len(NavItems)
            c == SimilarCount(soup, NavItems)
        IN  IF n < 2 \/ c < n \div 2 THEN Untouched ELSE RewrittenAsMenu]_vars

\* C8, amended: the rewrite also needs a <ul>: the element is rewritten
\* when n >= 2, c >= n div 2 and it is a <ul> or has one below it, and is
\* left untouched in every other case.
C8_ThresholdAndList ==
    [][AtNavElement =>
        LET n == Len(NavItems)
            c == SimilarCount(soup, NavItems)
        IN  IF n < 2 \/ c < n \div 2 \/ ~HasList THEN Untouched ELSE RewrittenAsMenu]_vars

\* a menu of two items, one similar to the first, has been rewritten
C8_Witness ==
    /\ pc = "navigation"
    /\ calls = 1
    /\ Len(FindAllTags(input, 1, {"li"})) = 2
    /\ Len(report.loops) = 1
    /\ Len(report.manual) = 1
    /\ soup # input

\* the containers repetition detection reports, in document order
Repeating(h) ==
    SelectSeq(FindAllTags(h, 1, {"div", "section", "article"}),
              LAMBDA c : /\ Len(ElementKids(h, c)) >= 3
                         /\ SimilarCount(h, ElementKids(h, c)) >= 2)

ContainerName(node) ==
    IF node.id # <<>> THEN node.id
    ELSE IF node.cls # <<>> THEN Head(node.cls)
    ELSE <<"container">>

Occurs(u, s) == \E i \in 1..(Len(s) - Len(u) + 1) : SubSeq(s, i, i + Len(u) - 1) = u

\* C9: repetition detection appends exactly one suggestion for each div,
\* section or article with at least 3 element children of which s >= 2 of
\* children[1:] are similar to children[0], and none for any other
\* container; the suggestion names the container by its id, else its first
\* class token, else "container", and states s + 1.  (In dialect B a
\* container of post-like children gets the suggestion of The Loop
\* instead of this text.)
C9_OneSuggestionPerContainer ==
    [][pc = "repeat" =>
        LET found == Repeating(soup)
            new == SubSeq(report'.manual, Len(report.manual) + 1, Len(report'.manual))
        IN  /\ SubSeq(report'.manual, 1, Len(report.manual)) = report.manual
            /\ Len(new) = Len(found)
            /\ \A i \in 1..Len(found) :
                  LET kids == ElementKids(soup, found[i])
                  IN  (dialect = Twig \/ ~LooksLikePost(soup[Head(kids)])) =>
                         /\ Occurs(ContainerName(soup[found[i]]) \o <<"' (">>, new[i])
                         /\ Occurs(<<ToString(SimilarCount(soup, kids) + 1),
                                     " similar children found)">>, new[i])]_vars

\* a container named by its class with four similar children was reported
C9_Witness ==
    /\ pc = "output"
    /\ \E i \in 1..Len(report.manual) :
          Occurs(<<"cards", "' (", "4", " similar children found)">>, report.manual[i])

RegionsDone == calls > 0 /\ pc \in {"repeat", "output", "report", "done"}

RegionIndex(name) == CHOOSE r \in 1..Len(RegionTable(dialect)) : RegionTable(dialect)[r].name = name

MatchingSelectors(r) ==
    {k \in 1..Len(RegionTable(dialect)[r].selectors) :
        \E n \in Range(Descendants(soup, 1)) :
            Matches(soup[n], RegionTable(dialect)[r].selectors[k])}

\* C10: after region detection the region log has a record for a region
\* iff one of its selectors matches; the record's reason names the first
\* matching selector; the log lists the regions in table order and holds
\* no two records with the same name.
C10_OneRecordPerRegion ==
    RegionsDone =>
        /\ \A i, j \in 1..Len(report.blocks) :
              i < j => RegionIndex(report.blocks[i].name) < RegionIndex(report.blocks[j].name)
        /\ \A r \in 1..Len(RegionTable(dialect)) :
              (\E i \in 1..Len(report.blocks) : report.blocks[i].name = RegionTable(dialect)[r].name)
                 <=> MatchingSelectors(r) # {}
        /\ \A i \in 1..Len(report.blocks) :
              LET r == RegionIndex(report.blocks[i].name)
                  first == CHOOSE k \in MatchingSelectors(r) : \A m \in MatchingSelectors(r) : k <= m
              IN  report.blocks[i].reason =
                     <<"Detected ", RegionTable(dialect)[r].selectors[first].label, " element(s)">>

\* a header matched by three of its selectors was recorded once
C10_Witness ==
    /\ RegionsDone
    /\ Cardinality(MatchingSelectors(1)) = 3
    /\ Len(SelectSeq(report.blocks, LAMBDA b : b.name = "header")) = 1

\* where a text occurs in another
Positions(u, s) == {i \in 1..(Len(s) - Len(u) + 1) : SubSeq(s, i, i + Len(u) - 1) = u}

\* the directives of a wrapped template
ExtendsOpen == <<"{%", " ", "extends", " ">>
BlockOpen(name) == <<"{%", " ", "block", " ", name, " ", "%}">>
BlockOrder == <<"title", "stylesheets", "body", "javascripts">>

\* convert() has returned
Returned == calls > 0 /\ pc \in {"report", "done"}

\* C11: dialect A: with a layout the output starts with the extends
\* directive of that layout and holds no other, and it holds at most one
\* block each of title, stylesheets, body and javascripts, those that are
\* there in that order; without a layout it holds no extends directive.
C11_LayoutWrapping ==
    (Returned /\ dialect = Twig) =>
        IF layout # NoLayout
        THEN /\ StartsWith(output, ExtendsOpen \o <<"'", layout, ".html.twig", "'", " ", "%}">>)
             /\ Positions(ExtendsOpen, output) = {1}
             /\ \A a \in 1..4 : Cardinality(Positions(BlockOpen(BlockOrder[a]), output)) <= 1
             /\ \A a, b \in 1..4 :
                   a < b => \A i \in Positions(BlockOpen(BlockOrder[a]), output),
                               j \in Positions(BlockOpen(BlockOrder[b]), output) : i < j
        ELSE Positions(ExtendsOpen, output) = {}

\* a page with a title, a stylesheet, content and a script was wrapped in
\* the layout, with all four blocks
C11_Witness ==
    /\ pc = "done"
    /\ layout = "base"
    /\ \A a \in 1..4 : Cardinality(Positions(BlockOpen(BlockOrder[a]), output)) = 1

\* the titles of the sections of the rendered report
SectionTitles ==
    <<"ASSET CONVERSIONS",
      IF dialect = Twig THEN "BLOCK SUGGESTIONS" ELSE "TEMPLATE PARTS SUGGESTIONS",
      "LOOP CONVERSIONS", "MANUAL REVIEW SUGGESTIONS", "WARNINGS", "END OF REPORT">>

\* where each title stands among the lines, in increasing order
TitleLines_(lines) ==
    [k \in 1..6 |-> SelectSeq([i \in 1..Len(lines) |-> i],
                              LAMBDA i : lines[i] = <<SectionTitles[k]>>)]

\* what a section holds between its title and the next title: its lines
\* other than the banners and the blank lines
Entries(lines, from, to) ==
    SelectSeq(SubSeq(lines, from + 1, to - 1),
              LAMBDA l : l \notin {<<>>, <<"-x70">>, <<"=x70">>})

\* the lines a log should show: each suggestion with its number, cut where
\* the suggestion itself holds a newline
NumberedLines(manual) ==
    Flatten([i \in 1..Len(manual) |->
                SplitOn(<<"  ", ToString(i), ". ">> \o manual[i], "\n")])

ShowsAssets(assets, shown) ==
    IF assets = <<>> THEN Len(shown) = 1
    ELSE /\ Len(shown) = 3 * Len(assets)
         /\ \A i \in 1..Len(assets) :
               /\ shown[3 * i - 2] = <<"  [", UpperAtom(assets[i].type), "]">>
               /\ shown[3 * i - 1] = <<"    Before: ">> \o assets[i].original
               /\ shown[3 * i] = <<"    After:  ">> \o assets[i].converted

ShowsBlocks(blocks, shown) ==
    IF blocks = <<>> THEN Len(shown) = 1
    ELSE /\ Len(shown) = 2 * Len(blocks)
         /\ \A i \in 1..Len(blocks) :
               /\ Occurs(<<blocks[i].name>>, shown[2 * i - 1])
               /\ shown[2 * i] = <<"    Reason: ">> \o blocks[i].reason

ShowsLoops(loops, shown) ==
    IF loops = <<>> THEN Len(shown) = 1
    ELSE /\ Len(shown) = 2 * Len(loops)
         /\ \A i \in 1..Len(loops) :
               shown[2 * i - 1] = <<"  Element: ">> \o loops[i].element

ShowsSuggestions(manual, shown) ==
    IF manual = <<>> THEN Len(shown) = 1 ELSE shown = NumberedLines(manual)

ShowsWarnings(warnings, shown) ==
    /\ Len(shown) = Len(warnings)
    /\ \A i \in 1..Len(shown) : EndsWith(shown[i], warnings[i])

\* the lines show the logs of r, with the titles standing at the lines at
RenderedAs(r, lines, at) ==
    LET warned == r.warnings # <<>>
    IN  /\ \A k \in {1, 2, 3, 4, 6} : Len(at[k]) = 1
        /\ Len(at[5]) = (IF warned THEN 1 ELSE 0)
        /\ at[1][1] < at[2][1] /\ at[2][1] < at[3][1] /\ at[3][1] < at[4][1]
        /\ at[4][1] < at[6][1]
        /\ warned => at[4][1] < at[5][1] /\ at[5][1] < at[6][1]
        /\ ShowsAssets(r.assets, Entries(lines, at[1][1], at[2][1]))
        /\ ShowsBlocks(r.blocks, Entries(lines, at[2][1], at[3][1]))
        /\ ShowsLoops(r.loops, Entries(lines, at[3][1], at[4][1]))
        /\ ShowsSuggestions(r.manual,
                            Entries(lines, at[4][1], IF warned THEN at[5][1] ELSE at[6][1]))
        /\ warned => ShowsWarnings(r.warnings, Entries(lines, at[5][1], at[6][1]))

\* the text t shows the logs of the report r
Rendered(t, r) ==
    \A lines \in {SplitOn(t, "\n")} :
        \A at \in {TitleLines_(lines)} : RenderedAs(r, lines, at)

\* C12: the text generate_text returns shows the sections in the order
\* assets, blocks or template parts, loops, manual review, warnings, the
\* last one iff there are warnings; each section lists the entries of its
\* log in append order, an asset entry as its kind header, its Before line
\* and its After line, the suggestions numbered 1..n; and rendering the
\* text leaves every log as it was.
C12_ReportText ==
    [][text' # <<>> /\ text' # text => Rendered(text', report') /\ report' = report]_vars

\* a report with two asset entries, two suggestions and a warning was rendered
C12_Witness ==
    /\ text # <<>>
    /\ calls = 0
    /\ Len(report.assets) = 2
    /\ Len(report.blocks) = 1
    /\ Len(report.loops) = 1
    /\ Len(report.manual) = 2
    /\ report.warnings # <<>>

\* the stages of a conversion in the order convert_file goes through them
Stages ==
    <<"images", "stylesheets", "scripts", "other", "navigation", "blocks", "repeat",
      "output", "report", "done">>

StagesLeft(p) == Len(Stages) - (CHOOSE i \in 1..Len(Stages) : Stages[i] = p)

\* what a conversion has left to do: the stages after the present one, the
\* selectors the navigation loop has not taken yet, and the matches of the
\* present selector it has not visited yet
Remaining(p, s, matched) == <<StagesLeft(p), Len(NAV_SELECTORS) + 1 - s, Len(matched)>>

\* the lexicographic order of triples of naturals, which is well founded
Less(a, b) ==
    \/ a[1] < b[1]
    \/ a[1] = b[1] /\ a[2] < b[2]
    \/ a[1] = b[1] /\ a[2] = b[2] /\ a[3] < b[3]

Running == {Stages[i] : i \in 1..(Len(Stages) - 1)}

\* a step of a running conversion leads to a stage of the pipeline again and
\* leaves strictly less to do
Advances ==
    pc \in Running =>
        /\ pc' \in Running \cup {"done"}
        /\ selector' \in 1..(Len(NAV_SELECTORS) + 1)
        /\ Less(Remaining(pc', selector', navs'), Remaining(pc, selector, navs))

\* C13: a conversion terminates. Every step of a running conversion leads to
\* a stage of the pipeline again (never to an aborted call) and leaves
\* strictly less to do, in a well-founded order, so that no run takes
\* infinitely many steps before its final state; this includes the steps of
\* the navigation loop that visit a match an earlier rewrite has destroyed.
C13_Terminates == [][Advances]_vars

\* a conversion has returned after the navigation loop was handed a match
\* that an earlier rewrite of the same list had destroyed
C13_Witness ==
    /\ pc = "done"
    /\ calls > 0
    /\ input = NestedNavDoc
    /\ report.loops # <<>>
    /\ \E n \in 1..Len(soup) : soup[n].gone

\* C14: once the asset passes are over, a path attribute whose input value
\* holds the dialect's delimiter ({{ or <?php) anywhere in it, not only at
\* its start, is in the tree exactly as it was in the input.
C14_DelimiterAnywhere ==
    AssetsDone =>
        \A x \in Classified :
            Occurs(Delimiter(dialect), input[x.node][x.attr]) =>
                soup[x.node][x.attr] = input[x.node][x.attr]

\* C15: once the asset passes are over, an inline style or a <style> text
\* that held no dialect delimiter ({{ or <?php) in the input holds none in
\* the tree either: the classified expression is embedded in url(...)
\* without its delimiters, in both dialects.
C15_NoDelimiterInUrl ==
    AssetsDone =>
        \A n \in 1..Len(input) :
            /\ ~Occurs(Delimiter(dialect), input[n].style) =>
                  ~Occurs(Delimiter(dialect), soup[n].style)
            /\ ~Occurs(Delimiter(dialect), StyleText(input, n)) =>
                  ~Occurs(Delimiter(dialect), StyleText(soup, n))

\* C16: the text convert() returns holds no run of three or more newlines,
\* with or without a layout.
C16_NoThreeNewlines ==
    (Returned /\ dialect = Twig) => ~Occurs(<<"\n", "\n", "\n">>, output)

\* the <script> elements below <body> of the converted tree
BodyScripts ==
    LET body == Find(soup, 1, {"body"})
    IN  IF body = 0 THEN {} ELSE Range(FindAllTags(soup, body, {"script"}))

ScriptOpen == <<"<", "script">>

\* C17: dialect A, with a layout: the output holds each <script> of <body>
\* exactly once, and holds it in the javascripts block, not in the body
\* block before it.
C17_ScriptsOnce ==
    (Returned /\ dialect = Twig /\ layout # NoLayout) =>
        /\ Cardinality(Positions(ScriptOpen, output)) = Cardinality(BodyScripts)
        /\ \A i \in Positions(ScriptOpen, output) :
              \E j \in Positions(BlockOpen("javascripts"), output) : j < i

\* the candidates of a srcset value: its comma-separated parts, trimmed,
\* those that are not blank
Candidates(srcset) ==
    LET parts == SplitOn(srcset, ",")
    IN  SelectSeq([i \in 1..Len(parts) |-> Strip(parts[i])], LAMBDA c : c # <<>>)

\* the URL of a candidate and its descriptor, as whitespace-separated tokens
CandidateUrl(c) == Head(SplitWhite(c))

Descriptor(c) == Tail(SplitWhite(c))

\* the elements whose srcset the passes hand to _convert_srcset
WithSrcset ==
    {n \in 1..Len(input) :
        /\ input[n].tag \in (IF dialect = Twig THEN {"img", "source"} ELSE {"img"})
        /\ input[n].srcset # <<>>
        /\ ~StartsWith(input[n].srcset, Delimiter(dialect))}

\* C18: once the asset passes are over, a srcset holds as many candidates
\* as it did in the input, in the same order and joined by ", "; each
\* candidate is its input URL classified on its own, followed by the
\* candidate's descriptor as it was.
C18_Srcset ==
    AssetsDone =>
        \A n \in WithSrcset :
            LET old == Candidates(input[n].srcset)
                new == Candidates(soup[n].srcset)
            IN  /\ Len(new) = Len(old)
                /\ soup[n].srcset = Join(new, <<",", " ">>)
                /\ \A i \in 1..Len(old) :
                      /\ StartsWith(new[i], ConvertAssetPath(dialect, CandidateUrl(old[i])))
                      /\ Descriptor(old[i]) # <<>> =>
                            EndsWith(new[i], <<" ">> \o Join(Descriptor(old[i]), <<" ">>))
                      /\ Len(new[i]) =
                            Len(ConvertAssetPath(dialect, CandidateUrl(old[i])))
                            + (IF Descriptor(old[i]) = <<>> THEN 0
                               ELSE 1 + Len(Join(Descriptor(old[i]), <<" ">>)))

\* a srcset of two relative candidates with descriptors has been rewritten
C18_Witness ==
    /\ AssetsDone
    /\ \E n \in WithSrcset :
          LET old == Candidates(input[n].srcset)
          IN  /\ Len(old) = 2
              /\ \A i \in 1..2 :
                    /\ Descriptor(old[i]) # <<>>
                    /\ ConvertAssetPath(dialect, CandidateUrl(old[i])) # CandidateUrl(old[i])
              /\ soup[n].srcset # input[n].srcset

\* the directory names the directory-shape patterns know
ShapeDirs == UNION {AliasDirs(t) : t \in Range(ASSET_PATTERNS)}

\* the images of the document whose path is leading ./ or ../ segments and
\* then something that has no directory shape: no category directory
\* where the patterns look for one, or nothing after it
UnshapedImages ==
    {x \in [node : {n \in 1..Len(input) : input[n].tag = "img" /\ input[n].src # <<>>},
            dots : DotPrefixes, assets : AssetsPrefixes, dir : Directories, rem : Remainders] :
        /\ input[x.node].src = x.dots \o x.assets \o x.dir \o x.rem
        /\ ~(x.dir # <<>> /\ LowerAtom(x.dir[1]) \in ShapeDirs /\ RStrip(x.rem) # <<>>)}

\* the category directory an extension selects, none for any other
ExtensionDir(ext) ==
    CASE ext \in {".css", ".scss", ".sass", ".less"} -> <<"css/">>
      [] ext \in {".js", ".mjs", ".ts"} -> <<"js/">>
      [] ext \in {".png", ".jpg", ".jpeg", ".gif", ".svg", ".webp", ".ico", ".avif"} ->
            <<"images/">>
      [] ext \in {".woff", ".woff2", ".ttf", ".otf", ".eot"} -> <<"fonts/">>
      [] OTHER -> <<>>

\* the path of x without its leading ./ and ../ segments, trimmed
StrippedPath(x) == Strip(x.assets \o x.dir \o x.rem)

AssetPass(k, d, st) ==
    CASE k = 1 -> ConvertImagesPass(d, st)
      [] k = 2 -> ConvertStylesheetsPass(d, st)
      [] k = 3 -> ConvertScriptsPass(d, st)
      [] k = 4 -> ConvertOtherAssetsPass(d, st)

PassOrders == {order \in [1..4 -> 1..4] : \A i, j \in 1..4 : order[i] = order[j] => i = j}

\* the tree the four passes leave when they run on the document h in the
\* given order
InOrder(order, d, h, r) ==
    AssetPass(order[4], d,
        AssetPass(order[3], d,
            AssetPass(order[2], d,
                AssetPass(order[1], d, [soup |-> h, report |-> r, raised |-> FALSE])))).soup

\* the conversion has just run its asset passes and nothing else
PassesJustDone == pc = "navigation" /\ selector = 1 /\ navs = <<>> /\ calls > 0

\* C20: the tree the asset passes have left is the tree they leave when
\* they run on the same document in any other order: every element holds
\* the same attribute values.
C20_OrderIndependent ==
    PassesJustDone =>
        \A order \in PassOrders :
            InOrder(order, dialect, input, [report EXCEPT !.assets = <<>>]) = soup

\* the passes have rewritten a link that is both a stylesheet and an icon,
\* which the stylesheet pass and the other-assets pass are both after
C20_Witness ==
    /\ PassesJustDone
    /\ \E n \in 1..Len(input) :
          /\ input[n].tag = "link"
          /\ {"stylesheet", "icon"} \subseteq Range(input[n].rel)
          /\ soup[n].href # input[n].href
          /\ soup[n].href = AssetExpr(dialect, <<"readme">>)

\* the elements of a tree, and those of the input that a rewrite took out
InTree(h) == Range(Descendants(h, 1))
TakenOut == {n \in InTree(input) : n \notin InTree(soup)}

\* the suggestions of the manual-review log by the pass that wrote them
IsNavSuggestion(m) == Head(m) \in {"Review the '", "Register menu location '"}
IsRepetitionSuggestion(m) ==
    Head(m) \in {"Consider using a for loop for repeated elements in '",
                 "Consider using a loop for repeated elements in '",
                 "Replace repeated articles in '"}

NavigationLeft == calls > 0 /\ pc \in {"blocks", "repeat", "output", "report", "done"}
RepetitionDone == calls > 0 /\ pc \in {"output", "report", "done"}

\* C21: once region detection can start, navigation rewriting is over: no
\* selector and no matched element is left to handle.  Detection reports
\* the rewritten tree: every region record has an element of the current
\* tree behind it, and the repetition suggestions are those of the
\* containers of the current tree, one each, in document order, so that an
\* element a navigation rewrite took out is reported by neither.  In
\* dialect A every navigation suggestion of the manual-review log stands
\* before every repetition suggestion.
C21_PhaseOrder ==
    NavigationLeft =>
        /\ navs = <<>>
        /\ selector = Len(NAV_SELECTORS) + 1
        /\ RegionsDone =>
              \A i \in 1..Len(report.blocks) :
                 \E n \in InTree(soup) \ TakenOut :
                    \E k \in 1..Len(RegionTable(dialect)[RegionIndex(report.blocks[i].name)].selectors) :
                       Matches(soup[n],
                               RegionTable(dialect)[RegionIndex(report.blocks[i].name)].selectors[k])
        /\ RepetitionDone =>
              LET said == SelectSeq(report.manual, IsRepetitionSuggestion)
                  found == Repeating(soup)
              IN  /\ Len(said) = Len(found)
                  /\ \A i \in 1..Len(found) :
                        /\ found[i] \notin TakenOut
                        /\ SubSeq(said[i], 2, 1 + Len(ContainerName(soup[found[i]])))
                              = ContainerName(soup[found[i]])
        /\ dialect = Twig =>
              \A i, j \in 1..Len(report.manual) :
                 (IsNavSuggestion(report.manual[i]) /\ IsRepetitionSuggestion(report.manual[j]))
                    => i < j

\* a menu was rewritten whose removed items held a region and repeated
\* containers: the input has three such containers and a sidebar, the
\* log has one navigation suggestion and then one repetition suggestion
C21_Witness ==
    /\ pc = "done"
    /\ calls = 1
    /\ dialect = Twig
    /\ Len(Repeating(input)) = 3
    /\ Len(Repeating(soup)) = 1
    /\ \E n \in TakenOut : input[n].id = <<"sidebar">>
    /\ \A i \in 1..Len(report.blocks) : report.blocks[i].name # "sidebar"
    /\ Len(report.manual) = 2
    /\ IsNavSuggestion(report.manual[1])
    /\ IsRepetitionSuggestion(report.manual[2])

\* the logs of a report, and a report that only gained entries
Logs == {"assets", "blocks", "loops", "manual", "warnings"}
OnlyAppended(old, new) ==
    /\ new.instance = old.instance
    /\ \A log \in Logs : StartsWith(new[log], old[log])

ReadsOnly ==
    pc \in {"blocks", "repeat"} => (soup' = soup /\ OnlyAppended(report, report'))

\* C22: the step of region detection and the step of repetition detection
\* leave the tree as it is, in both dialects, and every log of the report
\* keeps its entries, with the new ones after them.
C22_DetectionReadsOnly == [][ReadsOnly]_vars

\* both detections have reported on a page that no rewrite had touched
C22_Witness ==
    /\ pc = "output"
    /\ calls = 1
    /\ soup = input
    /\ report.blocks # <<>>
    /\ \E i \in 1..Len(report.manual) : IsRepetitionSuggestion(report.manual[i])

\* the menu name a rewrite used, read from the loop record it appended
NameUsed(d, loops) ==
    LET rec == loops[Len(loops)]
    IN  IF d = Twig THEN SubSeq(rec.items_var, 1, Len(rec.items_var) - 1)
        ELSE SubSeq(rec.element, 2, Len(rec.element))

\* two names that differ in letter case and in the separator only
Folded(name) == Replace(Replace(Lower(name), " ", "_"), "-", "_")
SameName(a, b) == Folded(a) = Folded(b)

NamingTokens(node) ==
    SelectSeq(node.cls, LAMBDA token : \E i \in 1..Len(token) :
                                         LowerAtom(token[i]) \in {"nav", "navbar", "navigation", "menu"})

NamedInOrder ==
    (AtNavElement /\ Len(report'.loops) > Len(report.loops)) =>
        LET node == soup[Head(navs)]
            name == NameUsed(dialect, report'.loops)
        IN  /\ node.id # <<>> => SameName(name, node.id)
            /\ (node.id = <<>> /\ NamingTokens(node) # <<>>)
                  => SameName(name, Head(NamingTokens(node)))
            /\ (node.id = <<>> /\ NamingTokens(node) = <<>> /\ node.aria # <<>>)
                  => SameName(name, node.aria)
            /\ (node.id = <<>> /\ NamingTokens(node) = <<>> /\ node.aria = <<>>)
                  => name = IF dialect = Twig THEN <<"menu">> ELSE <<"Primary", " ", "Menu">>

\* C23: the menu name of a rewritten navigation element comes from its id
\* when it has one; else from its first class token that contains "nav" or
\* "menu"; else from its aria-label; else it is "menu" in dialect A and
\* "Primary Menu" in dialect B.  (The name is the source up to letter case
\* and the separator between its words.)
C23_MenuNamePriority == [][NamedInOrder]_vars

\* a menu with no id, a naming class token after another one and an
\* aria-label was named by its class token
C23_Witness ==
    /\ pc = "done"
    /\ calls = 1
    /\ dialect = Twig
    /\ \E n \in InTree(input) :
          /\ input[n].tag = "nav"
          /\ input[n].id = <<>>
          /\ input[n].aria # <<>>
          /\ Len(input[n].cls) = 2
    /\ Len(report.loops) = 1
    /\ report.loops[1].items_var = <<"site", "_", "Menu", "_items">>

\* the text below an element, in document order
TextBelow(h, n) ==
    Flatten([i \in 1..Len(Descendants(h, n)) |-> h[Descendants(h, n)[i]].text])

\* an argument of the wp_nav_menu call, as the template holds it
Argument(key, pad, value) == <<"'", key, "'">> \o pad \o <<"=", ">", " ">> \o value \o <<",">>
Pad(k) == [i \in 1..k |-> " "]
Quoted(value) == <<"'">> \o value \o <<"'">>

\* the <ul> of a navigation element: the element itself or the first below
ListOf(h, nav) ==
    IF h[nav].tag = "ul" THEN nav ELSE Head(FindAllTags(h, nav, {"ul"}))

\* the step replaced nav by one new <nav> with a wp_nav_menu call in it and
\* wrote one loop record and one suggestion
ReplacedByMenuCall(nav) ==
    LET p == soup[nav].parent
        new == {w \in (Len(soup) + 1)..Len(soup') : soup'[w].tag = "nav"}
        w == CHOOSE x \in new : TRUE
        call == TextBelow(soup', w)
        location == Folded(NameUsed(WordPress, report'.loops))
    IN  /\ Cardinality(new) = 1
        /\ soup'[p].kids = [i \in 1..Len(soup[p].kids) |->
                               IF soup[p].kids[i] = nav THEN w ELSE soup[p].kids[i]]
        /\ soup'[w].parent = p
        /\ FindAllTags(soup', w, {"li"}) = <<>>
        /\ Cardinality(Positions(<<"wp_nav_menu(">>, call)) = 1
        /\ Occurs(Argument("theme_location", Pad(1), Quoted(location)), call)
        /\ Occurs(Argument("menu_class", Pad(5),
                           Quoted(Join(soup[ListOf(soup, nav)].cls, <<" ">>))), call)
        /\ Occurs(Argument("container", Pad(6), <<"false">>), call)
        /\ Len(report'.loops) = Len(report.loops) + 1
        /\ SubSeq(report'.loops, 1, Len(report.loops)) = report.loops
        /\ report'.loops[Len(report'.loops)].loop_type = <<"wp_nav_menu()">>
        /\ Len(report'.manual) = Len(report.manual) + 1
        /\ SubSeq(report'.manual, 1, Len(report.manual)) = report.manual
        /\ Occurs(<<"Register menu location '">> \o location \o <<"' in functions.php:">>,
                  report'.manual[Len(report'.manual)])
        /\ Occurs(<<"register_nav_menus(array('">> \o location \o <<"' => __('">>,
                  report'.manual[Len(report'.manual)])

AboveThreshold ==
    Len(NavItems) >= 2 /\ SimilarCount(soup, NavItems) >= Len(NavItems) \div 2

MenuCallForThreshold ==
    (AtNavElement /\ dialect = WordPress /\ AboveThreshold) => ReplacedByMenuCall(Head(navs))

MenuCallForList ==
    (AtNavElement /\ dialect = WordPress /\ AboveThreshold /\ HasList)
        => ReplacedByMenuCall(Head(navs))

\* C24 as stated: dialect B: a navigation element whose items reach the
\* threshold is replaced by one new element with no list items in it and
\* one wp_nav_menu call, whose theme_location is the folded menu name,
\* whose menu_class is the class attribute of the original list and whose
\* container is false; one loop record of kind "wp_nav_menu()" and one
\* suggestion naming the same theme_location are appended.
C24_MenuCall == [][MenuCallForThreshold]_vars

\* C24, amended: the same for an element that reaches the threshold and is
\* a <ul> or has one below it; an element with no <ul> is not replaced
\* (see C8).
C24_MenuCallForList == [][MenuCallForList]_vars

\* a menu named by its id, with a class on its list, became one call
C24_Witness ==
    /\ pc = "done"
    /\ calls = 1
    /\ dialect = WordPress
    /\ Len(FindAllTags(input, 1, {"li"})) = 3
    /\ FindAllTags(soup, 1, {"li"}) = <<>>
    /\ \E w \in InTree(soup) :
          /\ soup[w].tag = "nav"
          /\ Occurs(Argument("theme_location", Pad(1), Quoted(<<"main", "_", "nav">>)),
                    TextBelow(soup, w))
          /\ Occurs(Argument("menu_class", Pad(5), Quoted(<<"links">>)), TextBelow(soup, w))
    /\ report.loops = << [element |-> <<"Navigation menu: ", "Main", " ", "Nav">>,
                          loop_type |-> <<"wp_nav_menu()">>] >>

\* a first child that is an article or has "post" in a class token, in any
\* letter case
PostLike(node) ==
    \/ node.tag = "article"
    \/ \E i \in 1..Len(node.cls) :
          \E j \in 1..Len(node.cls[i]) : LowerAtom(node.cls[i][j]) \in {"post", "posts"}

TheLoop == <<"WordPress The Loop (while have_posts())">>

\* the step of repetition detection of dialect B wrote, for each qualifying
\* container in document order, one suggestion, and one loop record for
\* each of those with a post-like first child
LoopOrGeneric ==
    (pc = "repeat" /\ dialect = WordPress) =>
        LET found == Repeating(soup)
            first(c) == soup[Head(ElementKids(soup, c))]
            posts == SelectSeq(found, LAMBDA c : PostLike(first(c)))
            said == SubSeq(report'.manual, Len(report.manual) + 1, Len(report'.manual))
            looped == SubSeq(report'.loops, Len(report.loops) + 1, Len(report'.loops))
        IN  /\ Len(said) = Len(found)
            /\ Len(looped) = Len(posts)
            /\ \A i \in 1..Len(found) :
                  IF PostLike(first(found[i]))
                  THEN /\ StartsWith(said[i], <<"Replace repeated articles in '">>
                                                 \o ContainerName(soup[found[i]])
                                                 \o <<"' with WordPress The Loop:">>)
                       /\ ~Occurs(<<" similar children found)">>, said[i])
                  ELSE /\ StartsWith(said[i],
                                     <<"Consider using a loop for repeated elements in '">>
                                        \o ContainerName(soup[found[i]]))
                       /\ ~Occurs(<<"' with WordPress The Loop:">>, said[i])
            /\ \A k \in 1..Len(posts) :
                  looped[k] = [element |-> <<"Post list in '">>
                                              \o ContainerName(soup[posts[k]]) \o <<"'">>,
                               loop_type |-> TheLoop]

\* C25: dialect B: repetition detection appends, for each qualifying
\* container, one loop record and one suggestion of The Loop when the
\* first child is an article or has "post" in a class token, and one
\* generic suggestion and no loop record otherwise: one suggestion for
\* each qualifying container, and nothing else.
C25_LoopOrGeneric == [][LoopOrGeneric]_vars

\* a container whose first child is a div of class "entry Post" was
\* reported as a list of posts
C25_Witness ==
    /\ pc = "output"
    /\ calls = 1
    /\ dialect = WordPress
    /\ Len(Repeating(soup)) = 1
    /\ soup[Head(ElementKids(soup, Head(Repeating(soup))))].tag = "div"
    /\ Len(report.loops) = 1
    /\ report.loops[1].loop_type = TheLoop
    /\ Len(SelectSeq(report.manual, IsRepetitionSuggestion)) = 1

\* the selectors of region r whose query succeeds and finds an element
Answering(r) == {k \in MatchingSelectors(r) : RegionTable(dialect)[r].selectors[k].label \notin failing}

\* region detection passes over the selectors whose query raises: a region
\* has a record iff one of its other selectors matches, the record names
\* the first of these, and no warning is written
RegionFailureSkipped ==
    RegionsDone =>
        /\ report.warnings = <<>>
        /\ \A r \in 1..Len(RegionTable(dialect)) :
              (\E i \in 1..Len(report.blocks) : report.blocks[i].name = RegionTable(dialect)[r].name)
                 <=> Answering(r) # {}
        /\ \A i \in 1..Len(report.blocks) :
              LET r == RegionIndex(report.blocks[i].name)
                  first == CHOOSE k \in Answering(r) : \A m \in Answering(r) : k <= m
              IN  report.blocks[i].reason =
                     <<"Detected ", RegionTable(dialect)[r].selectors[first].label, " element(s)">>

\* the navigation selectors after one whose query raises are still handled:
\* once navigation is left, no element that one of the other selectors
\* matches is a menu still to rewrite
NavigationFailureSkipped ==
    NavigationLeft =>
        \A k \in 1..Len(NAV_SELECTORS) :
           NAV_SELECTORS[k].label \notin failing =>
              \A n \in Range(Select(soup, NAV_SELECTORS[k])) :
                 LET items == FindAllTags(soup, n, {"li"})
                 IN  ~(/\ Len(items) >= 2
                       /\ SimilarCount(soup, items) >= Len(items) \div 2
                       /\ ParentUl(soup, n) # 0)

\* C26: a selector whose query raises is passed over where it stands: the
\* conversion is not left by the exception, the report gets no entry for
\* the selector, and the selectors after it, of the same region, of later
\* regions and of the navigation table, are handled as usual.
C26_FailureSkipped ==
    /\ pc # "raised"
    /\ RegionFailureSkipped
    /\ NavigationFailureSkipped

\* the elements of a tree and the tag names of the element children of one
Elements(h) == {n \in InTree(h) : h[n].tag \notin {"#text", "#pi"}}
ChildTags(h, e) ==
    LET elems == SelectSeq(h[e].kids, LAMBDA c : h[c].tag \notin {"#text", "#pi"})
    IN  [i \in 1..Len(elems) |-> h[elems[i]].tag]

\* what the comparison may look at: the tag and the tags of the element
\* children
Shape(h, e) == <<h[e].tag, ChildTags(h, e)>>

\* C27: in the tree a conversion starts from and in the tree navigation
\* rewriting leaves, in both dialects, two elements are similar iff their
\* tags are equal and the tags of their element children are equal, in
\* order; so text children, attributes and what is below the children make
\* no difference.
C27_Similar ==
    (calls > 0 /\ pc \in {"images", "blocks"}) =>
        \A a, b \in Elements(soup) :
           ElementsSimilar(soup, a, b) <=> Shape(soup, a) = Shape(soup, b)

\* two list items are similar that differ in a text child, in an attribute
\* of a child and in nothing else, and were taken for a menu
C27_Witness ==
    /\ pc = "blocks"
    /\ calls = 1
    /\ \E a, b \in Elements(input) :
          /\ input[a].tag = "li" /\ input[b].tag = "li"
          /\ Len(input[a].kids) # Len(input[b].kids)
          /\ \E c \in Range(input[a].kids), e \in Range(input[b].kids) :
                input[c].tag = "div" /\ input[e].tag = "div" /\ input[c].id # input[e].id
          /\ ElementsSimilar(input, a, b)
    /\ Len(report.loops) = 1

\* the navigation loop records of the report and the loop constructs of
\* the tree: in dialect A the pairs of a for marker and an endfor marker,
\* in dialect B the elements that hold a wp_nav_menu call
NavRecords ==
    IF dialect = Twig THEN report.loops
    ELSE SelectSeq(report.loops, LAMBDA rec : rec.loop_type = <<"wp_nav_menu()">>)

LoopOpens(h) == {n \in InTree(h) : IsLoopOpen(h[n])}
LoopCloses(h) == {n \in InTree(h) : IsLoopClose(h[n])}
MenuCalls(h) ==
    {n \in InTree(h) : h[n].tag = "nav" /\ Occurs(<<"wp_nav_menu(">>, TextBelow(h, n))}

\* C28: in the first conversion of a page, once navigation rewriting is
\* over, the report has as many navigation loop records as the tree has
\* loop constructs: for markers, each with its endfor marker, in dialect
\* A, elements with a wp_nav_menu call in dialect B.
C28_RecordsMatchConstructs ==
    (NavigationLeft /\ calls = 1) =>
        IF dialect = Twig
        THEN /\ Len(NavRecords) = Cardinality(LoopOpens(soup))
             /\ Len(NavRecords) = Cardinality(LoopCloses(soup))
        ELSE Len(NavRecords) = Cardinality(MenuCalls(soup))

\* the register_nav_menus suggestions of the log, one for each navigation
\* loop record, and the theme_location each of them names
MenuSuggestions ==
    SelectSeq(report.manual, LAMBDA m : Head(m) = "Register menu location '")
SuggestedLocation(m) ==
    SubSeq(m, 2, (CHOOSE i \in 1..Len(m) : m[i] = "' in functions.php:") - 1)

\* C29: dialect B: the text generate_functions_php returns registers, for
\* every navigation loop record, the location that the suggestion written
\* with the record names and that a wp_nav_menu call written with it has
\* as its theme_location, under the name of the record.
C29_SameLocation ==
    (dialect = WordPress /\ functions_php # <<>>) =>
        /\ Len(MenuSuggestions) = Len(NavRecords)
        /\ \A k \in 1..Len(NavRecords) :
              LET location == SuggestedLocation(MenuSuggestions[k])
                  name == SubSeq(NavRecords[k].element, 2, Len(NavRecords[k].element))
              IN  /\ location = Folded(name)
                  /\ Occurs(<<"'">> \o location \o <<"'", " ", "=", ">", " ", "__('">> \o name,
                            functions_php)

\* the callers of the classifier that hand it one path, by the attribute
\* they rewrite, and where AssetDoc puts the attribute
Callers(d) ==
    IF d = Twig
    THEN {"img.src", "sheet.href", "icon.href", "script.src", "source.src", "video.poster"}
    ELSE {"img.src", "sheet.href", "icon.href", "script.src"}

CallerNode(kind) == IF kind = "source.src" THEN 6 ELSE 5

CallerAttr(kind) ==
    CASE kind \in {"sheet.href", "icon.href"} -> "href"
      [] kind = "video.poster" -> "poster"
      [] OTHER -> "src"

\* the value the asset passes leave when the path stands in the attribute
\* of the given kind
AsCalledFor(kind, d, path) ==
    InOrder(<<1, 2, 3, 4>>, d, AssetDoc(kind, path), NewReport(1))[CallerNode(kind)][CallerAttr(kind)]

MatchingPatterns(path) ==
    {t \in Range(ASSET_PATTERNS) : PatternMatch(t, Strip(path)).ok}

====
